---- MODULE Spec2Model ----
(***************************************************************************)
(* A model of xlist-scraper: the single-target extraction loop             *)
(* (scrapeList, src/scraper/scrapeList.ts) and the HTTP route that fans a  *)
(* request out over its list URLs under p-limit (registerRoutes,           *)
(* src/api/routes.ts).                                                     *)
(*                                                                         *)
(* Spec        one call of scrapeList, the page being the environment.     *)
(* SpecServer  the POST /scrape/list handler, several requests in flight;  *)
(*             a call of scrapeList is one step from start to settlement   *)
(*             and its outcome is any outcome scrapeList can produce with  *)
(*             partialOk = false.                                          *)
(***************************************************************************)
EXTENDS Integers, Sequences, FiniteSets, TLC

(* ------------------------------ bounds -------------------------------- *)

\* Largest tweet id the page shows.
MaxId == 2

\* Largest createdAt instant (a Date's getTime(), scaled).
MaxTime == 2

\* Largest maxTweets option the model configures (the schema allows 1..2000).
MaxTweetsBound == 2

\* Largest number of articles one getTweetArticles snapshot holds.
MaxArticles == 2

\* Largest number of list URLs the server is sent, over all its requests.
MaxTasks == 2

\* Largest value of the CONCURRENCY environment variable.
MaxConcurrency == 2

\* Largest number of tweets one target returns to the route.
MaxRecords == 2

\* Largest number of URLs in one array an entry point is given.
MaxUrls == 1

\* Largest number of scroll rounds of a timed session.
MaxRounds == 3

\* Largest number of URLs scrapeMultipleLists is given.
MaxTargets == 2

(* ---------------------------- the program ----------------------------- *)

VARIABLES
  \* scrapeList: options
  maxTweets,               \* opts.maxTweets
  partialOk,               \* opts.partialOk
  persistCookiesPath,      \* opts.persistCookiesPath is a non-empty string
  \* scrapeList: locals
  pc,                      \* position in scrapeList
  browser, context, page,  \* "null" | "open" | "closed" | "closeFailed"
  blockerCheck,            \* the value checkForBlockers returned, or Null
  tweets,                  \* Tweet[]
  seenIds,                 \* Set<string>
  consecutiveNoNewTweets,
  newTweetsFound,
  articlesLeft,            \* articles of the current snapshot not yet iterated
  completion,              \* what the try/catch decided: return value or thrown error
  result,                  \* what the caller of scrapeList observes
  cleanupLogged,           \* console.error("Error during cleanup:") was reached
  \* scrapeList: history
  doneReason,              \* why the while loop was left
  roundStartLen,           \* tweets.length when the current round began
  zeroRounds,              \* consecutive finished rounds that added no record
  extractionStarted,       \* a content wait, a snapshot or a parse was performed
  cookieSave,              \* "none" | "saved" | "failed": the save after the loop
  finallyEntered,          \* the finally block was entered
  sawDuplicate,            \* a parsed tweet's id was already in seenIds
  harvestOrder,            \* the tweets in the order of their tweets.push
  caughtError,             \* the error the catch clause received, or "none"
  cookieLoad,              \* "none" | "failed" | "loaded" | "rejected": the cookie load
  skipped,                 \* "no" | "skipped" | "skippedThenPushed": this round's null parses
  loaded,                  \* let loaded: what waitForTweets returned last
  blockedLater,            \* a login wall or rate-limit page appeared during the loop
  \* the server process
  CONCURRENCY,             \* parseInt(process.env.CONCURRENCY || "1", 10)
  PERSIST_COOKIES_PATH,    \* process.env.PERSIST_COOKIES_PATH || "" is not empty
  \* POST /scrape/list, per request
  listURLs,                \* number of list URLs of the request (0: not received)
  task,                    \* per URL: "queued" | "active" | "fulfilled" | "rejected"
  taskResult,              \* per URL: what the limited function settled with
  activeCount,             \* p-limit: activeCount of the request's limiter
  queue,                   \* p-limit: queued calls of the request's limiter
  cookieWrite,             \* per URL: "none" | "writing" | "done": the cookie save
  response,                \* the reply sent, or Null
  \* the entry points: POST /scrape/list, the CLI, the actor, a library call
  received,                \* what an entry point was given, or Null
  httpReply,               \* the route's reply to a body it rejected, or Null
  exited,                  \* the CLI or the actor exited before any scrapeList
  normalized,              \* what normalizeRequest returned, or Null
  launched,                \* the scrapeList calls that reached chromium.launch
  ended,                   \* how the run ended: outcomes, exit code or status; or Null
  \* a call of a library function
  called,                  \* the function called and its arguments, or Null
  returned,                \* what the call returned
  \* the time a session takes
  timeoutMs,               \* opts.timeoutMs
  timedPc,                 \* the operation the session is at
  elapsed,                 \* milliseconds since page.setDefaultTimeout
  rounds,                  \* scroll rounds of the while loop so far
  ending,                  \* "none" | "timeout" | "noTweets" | "returned"
  \* scrapeMultipleLists
  multiCall,               \* the arguments of the call, or Null before it
  multiResults,            \* results
  multiOutcomes,           \* history: how each scrapeList call settled
  multiActive,             \* indices of the URLs whose scrapeList is awaited
  multiReturned            \* what the call returned, or Null

loopVars ==
  << maxTweets, partialOk, persistCookiesPath, pc, browser, context, page,
     blockerCheck, tweets, seenIds, consecutiveNoNewTweets, newTweetsFound,
     articlesLeft, completion, result, cleanupLogged, doneReason,
     roundStartLen, zeroRounds, extractionStarted, cookieSave,
     finallyEntered, sawDuplicate, harvestOrder, caughtError, cookieLoad,
     skipped, loaded, blockedLater >>

serverVars ==
  << CONCURRENCY, PERSIST_COOKIES_PATH, listURLs, task, taskResult,
     activeCount, queue, cookieWrite, response >>

entryVars == << received, httpReply, exited, normalized, launched, ended >>

libVars == << called, returned >>

timedVars == << timeoutMs, timedPc, elapsed, rounds, ending >>

multiVars ==
  << multiCall, multiResults, multiOutcomes, multiActive, multiReturned >>

\* The variables an action of one part of the program leaves alone.
notLoopVars == << serverVars, entryVars, libVars, timedVars, multiVars >>

notServerVars == << loopVars, entryVars, libVars, timedVars, multiVars >>

notEntryVars == << loopVars, serverVars, libVars, timedVars, multiVars >>

notLibVars == << loopVars, serverVars, entryVars, timedVars, multiVars >>

notTimedVars == << loopVars, serverVars, entryVars, libVars, multiVars >>

notMultiVars == << loopVars, serverVars, entryVars, libVars, timedVars >>

vars == << loopVars, serverVars, entryVars, libVars, timedVars, multiVars >>

Null == [null |-> TRUE]

Ids == 1..MaxId

Times == 1..MaxTime

\* A Tweet, as far as scrapeList reads it: its id and its createdAt.
Tweet == [id : Ids, createdAt : Times]

\* What parseTweetElement returns for one article: a Tweet, or null when the
\* id cannot be extracted or the parse throws (caught inside the parser).
\* A parser that returns a record with an empty id where the id cannot be
\* extracted (id 0 stands for the empty string).
ParseResultEmptyId == Tweet \cup {Null} \cup [id : {0}, createdAt : Times]

ParseResult == Tweet \cup {Null}

\* Kinds of the Error objects scrapeList can throw, by what their message says.
ErrorKinds == {"RATE_LIMIT", "LOGIN_REQUIRED", "NO_TWEETS", "PLAYWRIGHT"}

\* Requests the server can be sent: each carries at least one URL.
Requests == 1..MaxTasks

maxConsecutiveScrolls == 5

(* --------------------------- pure functions --------------------------- *)

\* Variant of checkForBlockers: the rate-limit selectors are tried first.
checkForBlockersRateFirst(loginShown, rateShown) ==
  IF rateShown THEN [blocked |-> TRUE, reason |-> "RATE_LIMIT"]
  ELSE IF loginShown THEN [blocked |-> TRUE, reason |-> "LOGIN_REQUIRED"]
  ELSE [blocked |-> FALSE, reason |-> "none"]

\* checkForBlockers: login selectors first, then rate-limit selectors.
checkForBlockers(loginShown, rateShown) ==
  IF loginShown THEN [blocked |-> TRUE, reason |-> "LOGIN_REQUIRED"]
  ELSE IF rateShown THEN [blocked |-> TRUE, reason |-> "RATE_LIMIT"]
  ELSE [blocked |-> FALSE, reason |-> "none"]

\* Variant of IsNewTweet: the seenIds lookup is missing.
IsNewTweetNoLookup(tweet, seen) == tweet # Null

\* The test `tweet && !seenIds.has(tweet.id)`.
IsNewTweet(tweet, seen) == tweet # Null /\ tweet.id \notin seen

\* Variant of CapBreak: the break inside the for loop is missing.
CapBreakMissing(n, max) == FALSE

\* Variant of CapBreak: `>` for `>=`.
CapBreakOffByOne(n, max) == n > max

\* The test `tweets.length >= opts.maxTweets` inside the for loop.
CapBreak(n, max) == n >= max

\* Variant of CapBreakAfterRound: the test after the for loop is missing.
CapBreakAfterRoundMissing(n, max) == FALSE

\* The test `tweets.length >= opts.maxTweets` after the for loop.
CapBreakAfterRound(n, max) == n >= max

\* Variant of AfterFirstWait: the loop is entered whatever the wait returned.
AfterFirstWaitNoRetry(found) == "loop"

\* Where control goes after `let loaded = await waitForTweets(page, 12000)`:
\* into `if (!loaded)` with its scroll and second wait, or past it.
AfterFirstWait(found) == IF found THEN "loop" ELSE "scroll0"

\* Variant of SortByCreatedAtDesc: the list is left as it is.
NoSort(s) == s

\* Variant of InsertDesc: x goes in front of the elements equal to it.
RECURSIVE InsertDescBeforeEqual(_, _)
InsertDescBeforeEqual(x, s) ==
  IF s = << >> THEN << x >>
  ELSE IF Head(s).createdAt > x.createdAt
       THEN << Head(s) >> \o InsertDescBeforeEqual(x, Tail(s))
       ELSE << x >> \o s

\* Insert x into the non-increasing list s after every element that is not
\* smaller (a stable insertion).
RECURSIVE InsertDesc(_, _)
InsertDesc(x, s) ==
  IF s = << >> THEN << x >>
  ELSE IF Head(s).createdAt >= x.createdAt
       THEN << Head(s) >> \o InsertDesc(x, Tail(s))
       ELSE << x >> \o s

\* Array.prototype.sort with the comparator dateB - dateA: stable, newest first.
RECURSIVE SortByCreatedAtDesc(_)
SortByCreatedAtDesc(s) ==
  IF s = << >> THEN << >>
  ELSE InsertDesc(s[Len(s)], SortByCreatedAtDesc(SubSeq(s, 1, Len(s) - 1)))

\* Variant of NextStallCount: the increment is missing.
NextStallCountNoIncrement(count, newFound) == IF newFound = 0 THEN count ELSE 0

\* Variant of NextStallCount: the else branch that resets the counter is
\* missing.
NextStallCountNoReset(count, newFound) ==
  IF newFound = 0 THEN count + 1 ELSE count

\* The stall counter after a round that did not end by cap or end of feed:
\* `if (newTweetsFound === 0) consecutiveNoNewTweets++ else ... = 0`.
NextStallCount(count, newFound) == IF newFound = 0 THEN count + 1 ELSE 0

\* Variant of StallBreak: `>` for `>=`.
StallBreakOffByOne(count, newFound) ==
  newFound = 0 /\ count > maxConsecutiveScrolls

\* The break `consecutiveNoNewTweets >= maxConsecutiveScrolls`, reached only
\* in the branch newTweetsFound === 0.
StallBreak(count, newFound) == newFound = 0 /\ count >= maxConsecutiveScrolls

\* Variant of BlockerError: the LOGIN_REQUIRED branch is missing.
BlockerErrorRateOnly(bc) ==
  IF bc.blocked /\ bc.reason = "RATE_LIMIT" THEN "RATE_LIMIT" ELSE "none"

\* The error thrown on the blocker check's verdict, "none" when none is.
BlockerError(bc) ==
  IF bc.blocked /\ bc.reason = "RATE_LIMIT" THEN "RATE_LIMIT"
  ELSE IF bc.blocked /\ bc.reason = "LOGIN_REQUIRED" THEN "LOGIN_REQUIRED"
  ELSE "none"

\* Variant of CatchClause: the error is rethrown whatever partialOk is.
CatchClauseRethrow(pOk, err) ==
  [type |-> "throw", value |-> << >>, error |-> err]

\* The catch clause of scrapeList: swallow when partialOk, else rethrow.
CatchClause(pOk, err) ==
  IF pOk THEN [type |-> "return", value |-> << >>, error |-> "none"]
  ELSE [type |-> "throw", value |-> << >>, error |-> err]

\* Variant of AfterFinally: the finally block lacks its own try/catch, so an
\* error of a close call replaces the completion.
AfterFinallyUncaught(compl, cleanupFailed) ==
  IF cleanupFailed
    THEN [type |-> "throw", value |-> << >>, error |-> "CLEANUP"]
    ELSE compl

\* What the caller observes once the finally block has run: the finally block
\* catches its own errors, so the completion decided before it stands.
AfterFinally(compl, cleanupFailed) == compl

(* ------------------------------ scrapeList ---------------------------- *)

\* No request has been received.
ServerIdle ==
  /\ listURLs = [r \in Requests |-> 0]
  /\ task = [r \in Requests |-> << >>]
  /\ taskResult = [r \in Requests |-> << >>]
  /\ activeCount = [r \in Requests |-> 0]
  /\ queue = [r \in Requests |-> << >>]
  /\ cookieWrite = [r \in Requests |-> << >>]
  /\ response = [r \in Requests |-> Null]

\* No entry point was called yet.
EntryIdle ==
  /\ received = Null
  /\ httpReply = Null
  /\ exited = FALSE
  /\ normalized = Null
  /\ launched = {}
  /\ ended = Null

\* No library function was called yet.
LibIdle ==
  /\ called = Null
  /\ returned = Null

\* DEFAULT_OPTIONS.timeoutMs
defaultTimeoutMs == 60000

\* No timed session was started.
TimedIdle ==
  /\ timeoutMs = defaultTimeoutMs
  /\ timedPc = "idle"
  /\ elapsed = 0
  /\ rounds = 0
  /\ ending = "none"

\* scrapeMultipleLists was not called yet.
MultiIdle ==
  /\ multiCall = Null
  /\ multiResults = << >>
  /\ multiOutcomes = << >>
  /\ multiActive = {}
  /\ multiReturned = Null

Init ==
  /\ CONCURRENCY = 1
  /\ PERSIST_COOKIES_PATH = FALSE
  /\ ServerIdle
  /\ EntryIdle
  /\ LibIdle
  /\ TimedIdle
  /\ MultiIdle
  /\ maxTweets \in 1..MaxTweetsBound
  /\ partialOk \in BOOLEAN
  /\ persistCookiesPath \in BOOLEAN
  /\ pc = "launch"
  /\ browser = "null" /\ context = "null" /\ page = "null"
  /\ blockerCheck = Null
  /\ tweets = << >>
  /\ seenIds = {}
  /\ consecutiveNoNewTweets = 0
  /\ newTweetsFound = 0
  /\ articlesLeft = 0
  /\ completion = Null
  /\ result = Null
  /\ cleanupLogged = FALSE
  /\ doneReason = "none"
  /\ roundStartLen = 0
  /\ zeroRounds = 0
  /\ extractionStarted = FALSE
  /\ cookieSave = "none"
  /\ finallyEntered = FALSE
  /\ sawDuplicate = FALSE
  /\ harvestOrder = << >>
  /\ caughtError = "none"
  /\ cookieLoad = "none"
  /\ skipped = "no"
  /\ loaded = FALSE
  /\ blockedLater = FALSE

\* What opts.persistCookiesPath names: no path given ("noPath"), a file that
\* cannot be read ("unreadable"), a file that is not JSON ("notJson"), a JSON
\* file that is not the cookie array of a storage state ("notCookies"), or
\* such an array ("cookies").
CookieFiles(pathGiven) ==
  IF pathGiven THEN {"unreadable", "notJson", "notCookies", "cookies"}
  ELSE {"noPath"}

\* The cookie load for a file: readFile or JSON.parse throws and the catch
\* clause warns ("failed"), or contextOptions.storageState is set to what was
\* parsed ("loaded").
CookieLoad(file) ==
  IF file = "noPath" THEN "none"
  ELSE IF file \in {"unreadable", "notJson"} THEN "failed"
  ELSE "loaded"

\* browser.newContext(contextOptions), outside the try block of the load,
\* rejects a storageState whose cookies are no cookie array.
NewContextRejects(file) == CookieLoad(file) = "loaded" /\ file # "cookies"

\* History: whether a parse of this round returned null, and whether a tweet
\* was pushed after it.
NextSkipped(was, tweet, seen) ==
  IF tweet = Null THEN (IF was = "no" THEN "skipped" ELSE was)
  ELSE IF was = "skipped" /\ tweet.id \notin seen THEN "skippedThenPushed"
  ELSE was

\* An Error is thrown inside the try block: the catch clause decides the
\* completion and control passes to the finally block.
Throw(err) ==
  /\ completion' = CatchClause(partialOk, err)
  /\ caughtError' = err
  /\ pc' = "closePage"

\* chromium.launch
Launch ==
  /\ pc = "launch"
  /\ \/ /\ browser' = "open"
        /\ pc' = "newContext"
        /\ UNCHANGED << completion, caughtError >>
     \/ /\ Throw("PLAYWRIGHT")
        /\ UNCHANGED browser
  /\ UNCHANGED << maxTweets, partialOk, blockedLater, loaded, persistCookiesPath, context, page,
                  blockerCheck, tweets, harvestOrder, seenIds, consecutiveNoNewTweets,
                  newTweetsFound, articlesLeft, result, cleanupLogged,
                  doneReason, roundStartLen, zeroRounds, extractionStarted,
                  cookieSave, finallyEntered, sawDuplicate, cookieLoad, skipped,
                  notLoopVars >>

\* The cookie load (its failure is caught and only warned about),
\* browser.newContext, context.newPage and page.setDefaultTimeout.
NewContext ==
  /\ pc = "newContext"
  /\ \E file \in CookieFiles(persistCookiesPath) :
       /\ cookieLoad' =
            (IF NewContextRejects(file) THEN "rejected" ELSE CookieLoad(file))
       /\ IF NewContextRejects(file)
            THEN /\ Throw("PLAYWRIGHT")
                 /\ UNCHANGED << context, page >>
            ELSE \/ /\ context' = "open"
                    /\ page' = "open"
                    /\ pc' = "goto"
                    /\ UNCHANGED << completion, caughtError >>
                 \/ /\ context' = "open"
                    /\ Throw("PLAYWRIGHT")
                    /\ UNCHANGED page
                 \/ /\ Throw("PLAYWRIGHT")
                    /\ UNCHANGED << context, page >>
  /\ UNCHANGED << maxTweets, partialOk, blockedLater, loaded, persistCookiesPath, browser,
                  blockerCheck, tweets, harvestOrder, seenIds, consecutiveNoNewTweets,
                  newTweetsFound, articlesLeft, result, cleanupLogged,
                  doneReason, roundStartLen, zeroRounds, extractionStarted,
                  cookieSave, finallyEntered, sawDuplicate, skipped, notLoopVars >>

\* page.goto(normalizedUrl, { waitUntil: "networkidle" })
Goto ==
  /\ pc = "goto"
  /\ \/ /\ pc' = "check"
        /\ UNCHANGED << completion, caughtError >>
     \/ Throw("PLAYWRIGHT")
  /\ UNCHANGED << maxTweets, partialOk, blockedLater, loaded, persistCookiesPath, browser, context,
                  page, blockerCheck, tweets, harvestOrder, seenIds, consecutiveNoNewTweets,
                  newTweetsFound, articlesLeft, result, cleanupLogged,
                  doneReason, roundStartLen, zeroRounds, extractionStarted,
                  cookieSave, finallyEntered, sawDuplicate, cookieLoad, skipped,
                  notLoopVars >>

\* Variant of BlockerCheckAt: checkForBlockers is called again before every
\* scroll.
BlockerCheckAtEveryScroll == {"check", "scroll"}

\* Where scrapeList calls checkForBlockers: after page.goto, nowhere else.
BlockerCheckAt == {"check"}

\* The blocker check right after navigation.
CheckBlockers ==
  /\ pc \in BlockerCheckAt
  /\ \/ \E loginShown \in BOOLEAN, rateShown \in BOOLEAN :
          LET bc == checkForBlockers(loginShown, rateShown) IN
          /\ blockerCheck' = bc
          /\ IF BlockerError(bc) # "none"
               THEN Throw(BlockerError(bc))
               ELSE /\ pc' = "wait1"
                    /\ UNCHANGED << completion, caughtError >>
     \/ /\ Throw("PLAYWRIGHT")
        /\ UNCHANGED blockerCheck
  /\ UNCHANGED << maxTweets, partialOk, blockedLater, loaded, persistCookiesPath, browser, context,
                  page, tweets, harvestOrder, seenIds, consecutiveNoNewTweets,
                  newTweetsFound, articlesLeft, result, cleanupLogged,
                  doneReason, roundStartLen, zeroRounds, extractionStarted,
                  cookieSave, finallyEntered, sawDuplicate, cookieLoad, skipped,
                  notLoopVars >>

\* let loaded = await waitForTweets(page, 12000)
WaitForTweets1 ==
  /\ pc = "wait1"
  /\ extractionStarted' = TRUE
  /\ \E found \in BOOLEAN :
       /\ loaded' = found
       /\ pc' = AfterFirstWait(found)
  /\ UNCHANGED << maxTweets, partialOk, blockedLater, persistCookiesPath, browser, context,
                  page, blockerCheck, tweets, harvestOrder, seenIds, consecutiveNoNewTweets,
                  newTweetsFound, articlesLeft, completion, caughtError, result,
                  cleanupLogged, doneReason, roundStartLen, zeroRounds,
                  cookieSave, finallyEntered, sawDuplicate, cookieLoad, skipped,
                  notLoopVars >>

\* if (!loaded) await scrollToLoadMore(page)
ScrollFirst ==
  /\ pc = "scroll0"
  /\ \/ /\ pc' = "wait2"
        /\ UNCHANGED << completion, caughtError >>
     \/ Throw("PLAYWRIGHT")
  /\ UNCHANGED << maxTweets, partialOk, blockedLater, loaded, persistCookiesPath, browser, context,
                  page, blockerCheck, tweets, harvestOrder, seenIds, consecutiveNoNewTweets,
                  newTweetsFound, articlesLeft, result, cleanupLogged,
                  doneReason, roundStartLen, zeroRounds, extractionStarted,
                  cookieSave, finallyEntered, sawDuplicate, cookieLoad, skipped,
                  notLoopVars >>

\* loaded = await waitForTweets(page, 8000); if (!loaded) throw ...
WaitForTweets2 ==
  /\ pc = "wait2"
  /\ \E found \in BOOLEAN :
       /\ loaded' = found
       /\ IF found
            THEN /\ pc' = "loop"
                 /\ UNCHANGED << completion, caughtError >>
            ELSE Throw("NO_TWEETS")
  /\ UNCHANGED << maxTweets, partialOk, blockedLater, persistCookiesPath, browser, context,
                  page, blockerCheck, tweets, harvestOrder, seenIds, consecutiveNoNewTweets,
                  newTweetsFound, articlesLeft, result, cleanupLogged,
                  doneReason, roundStartLen, zeroRounds, extractionStarted,
                  cookieSave, finallyEntered, sawDuplicate, cookieLoad, skipped,
                  notLoopVars >>

\* The while condition, then getTweetArticles and `let newTweetsFound = 0`.
GetArticles ==
  /\ pc = "loop"
  /\ IF Len(tweets) < maxTweets
       THEN \/ /\ \E n \in 0..MaxArticles : articlesLeft' = n
               /\ newTweetsFound' = 0
               /\ roundStartLen' = Len(tweets)
               /\ skipped' = "no"
               /\ extractionStarted' = TRUE
               /\ pc' = "parse"
               /\ UNCHANGED << completion, caughtError >>
            \/ /\ Throw("PLAYWRIGHT")
               /\ UNCHANGED << articlesLeft, newTweetsFound, roundStartLen,
                               extractionStarted, skipped >>
       ELSE /\ pc' = "save"
            /\ UNCHANGED << articlesLeft, newTweetsFound, roundStartLen,
                            extractionStarted, completion, caughtError,
                            skipped >>
  /\ UNCHANGED << maxTweets, partialOk, blockedLater, loaded, persistCookiesPath, browser, context,
                  page, blockerCheck, tweets, harvestOrder, seenIds, consecutiveNoNewTweets,
                  result, cleanupLogged, doneReason, zeroRounds, cookieSave,
                  finallyEntered, sawDuplicate, cookieLoad, notLoopVars >>

\* One iteration of `for (const article of articles)`: the cap test, then
\* parseTweetElement and the dedup test.
ParseArticle ==
  /\ pc = "parse"
  /\ IF articlesLeft = 0 \/ CapBreak(Len(tweets), maxTweets)
       THEN /\ pc' = "roundEnd"
            /\ UNCHANGED << tweets, harvestOrder, seenIds, newTweetsFound,
                            articlesLeft, sawDuplicate, skipped >>
       ELSE \E tweet \in ParseResult :
              /\ sawDuplicate' =
                   (sawDuplicate \/ (tweet # Null /\ tweet.id \in seenIds))
              /\ IF IsNewTweet(tweet, seenIds)
                   THEN /\ seenIds' = seenIds \cup {tweet.id}
                        /\ tweets' = Append(tweets, tweet)
                        /\ harvestOrder' = Append(harvestOrder, tweet)
                        /\ newTweetsFound' = newTweetsFound + 1
                   ELSE UNCHANGED << tweets, harvestOrder, seenIds, newTweetsFound >>
              /\ skipped' = NextSkipped(skipped, tweet, seenIds)
              /\ articlesLeft' = articlesLeft - 1
              /\ pc' = "parse"
  /\ UNCHANGED << maxTweets, partialOk, blockedLater, loaded, persistCookiesPath, browser, context,
                  page, blockerCheck, consecutiveNoNewTweets, completion, caughtError,
                  result, cleanupLogged, doneReason, roundStartLen, zeroRounds,
                  extractionStarted, cookieSave, finallyEntered, cookieLoad,
                  notLoopVars >>

\* History: a round whose checks completed either added a record or did not.
FinishedRound(z) == IF Len(tweets) = roundStartLen THEN z + 1 ELSE 0

\* The checks after the for loop: cap, end of feed, stall counter.
RoundEnd ==
  /\ pc = "roundEnd"
  /\ IF CapBreakAfterRound(Len(tweets), maxTweets)
       THEN /\ doneReason' = "CapReached"
            /\ pc' = "save"
            /\ zeroRounds' = FinishedRound(zeroRounds)
            /\ UNCHANGED << consecutiveNoNewTweets, completion, caughtError >>
       ELSE \/ \E endReached \in BOOLEAN :
                 /\ zeroRounds' = FinishedRound(zeroRounds)
                 /\ UNCHANGED << completion, caughtError >>
                 /\ IF endReached
                      THEN /\ doneReason' = "EndOfFeed"
                           /\ pc' = "save"
                           /\ UNCHANGED consecutiveNoNewTweets
                      ELSE /\ consecutiveNoNewTweets' =
                                NextStallCount(consecutiveNoNewTweets, newTweetsFound)
                           /\ IF StallBreak(consecutiveNoNewTweets', newTweetsFound)
                                THEN /\ doneReason' = "Stalled"
                                     /\ pc' = "save"
                                ELSE /\ pc' = "scroll"
                                     /\ UNCHANGED doneReason
            \/ /\ Throw("PLAYWRIGHT")
               /\ UNCHANGED << consecutiveNoNewTweets, doneReason, zeroRounds >>
  /\ UNCHANGED << maxTweets, partialOk, blockedLater, loaded, persistCookiesPath, browser, context,
                  page, blockerCheck, tweets, harvestOrder, seenIds, newTweetsFound,
                  articlesLeft, result, cleanupLogged, roundStartLen,
                  extractionStarted, cookieSave, finallyEntered, sawDuplicate, cookieLoad, skipped,
                  notLoopVars >>

\* scrollToLoadMore(page) and page.waitForTimeout(500)
Scroll ==
  /\ pc = "scroll"
  /\ \/ /\ pc' = "loop"
        /\ UNCHANGED << completion, caughtError >>
     \/ Throw("PLAYWRIGHT")
  /\ UNCHANGED << maxTweets, partialOk, blockedLater, loaded, persistCookiesPath, browser, context,
                  page, blockerCheck, tweets, harvestOrder, seenIds, consecutiveNoNewTweets,
                  newTweetsFound, articlesLeft, result, cleanupLogged,
                  doneReason, roundStartLen, zeroRounds, extractionStarted,
                  cookieSave, finallyEntered, sawDuplicate, cookieLoad, skipped,
                  notLoopVars >>

\* After the loop: the cookie save (its failure is caught and only warned
\* about), the sort, and `return tweets`.
SaveSortReturn ==
  /\ pc = "save"
  /\ IF persistCookiesPath /\ context # "null"
       THEN cookieSave' \in {"saved", "failed"}
       ELSE UNCHANGED cookieSave
  /\ tweets' = SortByCreatedAtDesc(tweets)
  /\ UNCHANGED << harvestOrder, caughtError >>
  /\ completion' = [type |-> "return", value |-> tweets', error |-> "none"]
  /\ pc' = "closePage"
  /\ UNCHANGED << maxTweets, partialOk, blockedLater, loaded, persistCookiesPath, browser, context,
                  page, blockerCheck, seenIds, consecutiveNoNewTweets,
                  newTweetsFound, articlesLeft, result, cleanupLogged,
                  doneReason, roundStartLen, zeroRounds, extractionStarted,
                  finallyEntered, sawDuplicate, cookieLoad, skipped,
                  notLoopVars >>

\* finally: await page?.close()
ClosePage ==
  /\ pc = "closePage"
  /\ finallyEntered' = TRUE
  /\ IF page = "null"
       THEN /\ pc' = "closeContext"
            /\ UNCHANGED << page, cleanupLogged >>
       ELSE \/ /\ page' = "closed"
               /\ pc' = "closeContext"
               /\ UNCHANGED cleanupLogged
            \/ /\ page' = "closeFailed"
               /\ cleanupLogged' = TRUE
               /\ pc' = "settle"
  /\ UNCHANGED << maxTweets, partialOk, blockedLater, loaded, persistCookiesPath, browser, context,
                  blockerCheck, tweets, harvestOrder, seenIds, consecutiveNoNewTweets,
                  newTweetsFound, articlesLeft, completion, caughtError, result,
                  doneReason, roundStartLen, zeroRounds, extractionStarted,
                  cookieSave, sawDuplicate, cookieLoad, skipped,
                  notLoopVars >>

\* finally: await context?.close()
CloseContext ==
  /\ pc = "closeContext"
  /\ IF context = "null"
       THEN /\ pc' = "closeBrowser"
            /\ UNCHANGED << context, cleanupLogged >>
       ELSE \/ /\ context' = "closed"
               /\ pc' = "closeBrowser"
               /\ UNCHANGED cleanupLogged
            \/ /\ context' = "closeFailed"
               /\ cleanupLogged' = TRUE
               /\ pc' = "settle"
  /\ UNCHANGED << maxTweets, partialOk, blockedLater, loaded, persistCookiesPath, browser, page,
                  blockerCheck, tweets, harvestOrder, seenIds, consecutiveNoNewTweets,
                  newTweetsFound, articlesLeft, completion, caughtError, result,
                  doneReason, roundStartLen, zeroRounds, extractionStarted,
                  cookieSave, finallyEntered, sawDuplicate, cookieLoad, skipped,
                  notLoopVars >>

\* finally: await browser?.close()
CloseBrowser ==
  /\ pc = "closeBrowser"
  /\ IF browser = "null"
       THEN /\ pc' = "settle"
            /\ UNCHANGED << browser, cleanupLogged >>
       ELSE \/ /\ browser' = "closed"
               /\ pc' = "settle"
               /\ UNCHANGED cleanupLogged
            \/ /\ browser' = "closeFailed"
               /\ cleanupLogged' = TRUE
               /\ pc' = "settle"
  /\ UNCHANGED << maxTweets, partialOk, blockedLater, loaded, persistCookiesPath, context, page,
                  blockerCheck, tweets, harvestOrder, seenIds, consecutiveNoNewTweets,
                  newTweetsFound, articlesLeft, completion, caughtError, result,
                  doneReason, roundStartLen, zeroRounds, extractionStarted,
                  cookieSave, finallyEntered, sawDuplicate, cookieLoad, skipped,
                  notLoopVars >>

\* The promise of scrapeList settles with the completion the try/catch chose.
Settle ==
  /\ pc = "settle"
  /\ result' = AfterFinally(completion, cleanupLogged)
  /\ pc' = "done"
  /\ UNCHANGED << maxTweets, partialOk, blockedLater, loaded, persistCookiesPath, browser, context,
                  page, blockerCheck, tweets, harvestOrder, seenIds, consecutiveNoNewTweets,
                  newTweetsFound, articlesLeft, completion, caughtError, cleanupLogged,
                  doneReason, roundStartLen, zeroRounds, extractionStarted,
                  cookieSave, finallyEntered, sawDuplicate, cookieLoad, skipped,
                  notLoopVars >>

Next ==
  \/ Launch
  \/ NewContext
  \/ Goto
  \/ CheckBlockers
  \/ WaitForTweets1
  \/ ScrollFirst
  \/ WaitForTweets2
  \/ GetArticles
  \/ ParseArticle
  \/ RoundEnd
  \/ Scroll
  \/ SaveSortReturn
  \/ ClosePage
  \/ CloseContext
  \/ CloseBrowser
  \/ Settle

Spec == Init /\ [][Next]_vars

\* The page turns into a login wall or a rate-limit page while the while loop
\* runs. What the page operations return afterwards is left open, as before.
BlockerAppears ==
  /\ pc \in {"loop", "parse", "roundEnd", "scroll"}
  /\ ~blockedLater
  /\ blockedLater' = TRUE
  /\ UNCHANGED << maxTweets, partialOk, loaded, persistCookiesPath, pc, browser,
                  context, page, blockerCheck, tweets, harvestOrder, seenIds,
                  consecutiveNoNewTweets, newTweetsFound, articlesLeft,
                  completion, caughtError, result, cleanupLogged, doneReason,
                  roundStartLen, zeroRounds, extractionStarted, cookieSave,
                  finallyEntered, sawDuplicate, cookieLoad, skipped,
                  notLoopVars >>

NextBlockedLater ==
  \/ Next
  \/ BlockerAppears

\* One call of scrapeList without persistCookiesPath in which every awaited
\* page operation settles: a step that can be taken is taken.
InitFair == Init /\ ~persistCookiesPath

SpecFair == InitFair /\ [][Next]_vars /\ WF_vars(Next)

\* One call of scrapeList on a page that may turn into a blocker page.
SpecBlockedLater == InitFair /\ [][NextBlockedLater]_vars

(* ------------------------- POST /scrape/list -------------------------- *)

\* The lists scrapeList returns to the route: at most MaxRecords tweets,
\* distinct ids (the k-th tweet has id k), newest first.
RECURSIVE NonIncreasing(_)
NonIncreasing(s) ==
  \/ Len(s) <= 1
  \/ /\ s[1].createdAt >= s[2].createdAt
     /\ NonIncreasing(Tail(s))

ReturnedLists ==
  UNION { { s \in [1..n -> [id : 1..MaxRecords, createdAt : Times]] :
              /\ \A k \in 1..n : s[k].id = k
              /\ NonIncreasing(s) } : n \in 0..MaxRecords }

\* How a call scrapeList(url, { ..., partialOk: false }) can settle.
ScrapeOutcomes ==
  { [type |-> "return", value |-> s, error |-> "none"] : s \in ReturnedLists }
    \cup { [type |-> "throw", value |-> << >>, error |-> e] : e \in ErrorKinds }

\* errorMessage.includes(needle), the message being that of an Error of the
\* given kind: only the two blocker messages hold a blocker name.
MessageIncludes(kind, needle) == kind = needle

\* tweets.map((tweet) => ({ ...tweet, sourceListURL: url }))
RECURSIVE AddSource(_, _)
AddSource(s, url) ==
  IF s = << >> THEN << >>
  ELSE << [id |-> Head(s).id, createdAt |-> Head(s).createdAt,
           sourceListURL |-> url] >> \o AddSource(Tail(s), url)

\* The function handed to limit(): how its promise settles for an outcome of
\* scrapeList.
LimitedTask(url, outcome) ==
  IF outcome.type = "return"
    THEN [state |-> "fulfilled",
          value |-> [url |-> url, tweets |-> AddSource(outcome.value, url),
                     error |-> "null"]]
  ELSE IF MessageIncludes(outcome.error, "RATE_LIMIT")
    THEN [state |-> "rejected",
          value |-> [type |-> "RATE_LIMIT", message |-> outcome.error]]
  ELSE IF MessageIncludes(outcome.error, "LOGIN_REQUIRED")
    THEN [state |-> "rejected",
          value |-> [type |-> "RATE_LIMIT", message |-> outcome.error]]
  ELSE [state |-> "fulfilled",
        value |-> [url |-> url, tweets |-> << >>, error |-> outcome.error]]

\* Variant of AllTweets: a tweet whose id an earlier result already holds is
\* dropped.
RECURSIVE AllTweetsDedupById(_)
AllTweetsDedupById(results) ==
  IF results = << >> THEN << >>
  ELSE LET earlier == AllTweetsDedupById(SubSeq(results, 1, Len(results) - 1))
           last == results[Len(results)]
           Fresh(t) == \A k \in DOMAIN earlier : earlier[k].id # t.id
       IN earlier \o (IF last.error # "null" THEN << >>
                      ELSE SelectSeq(last.tweets, Fresh))

\* The loop over results: allTweets in result order.
RECURSIVE AllTweets(_)
AllTweets(results) ==
  IF results = << >> THEN << >>
  ELSE (IF Head(results).error # "null" THEN << >> ELSE Head(results).tweets)
         \o AllTweets(Tail(results))

\* The loop over results: errors in result order.
RECURSIVE Errors(_)
Errors(results) ==
  IF results = << >> THEN << >>
  ELSE (IF Head(results).error # "null"
          THEN << [url |-> Head(results).url, error |-> Head(results).error] >>
          ELSE << >>)
         \o Errors(Tail(results))

\* The reply chosen from the sorted tweets and the errors.
ChooseReply(allTweets, errors) ==
  IF Len(errors) > 0 /\ Len(allTweets) = 0
    THEN [status |-> 500, error |-> "INTERNAL", items |-> << >>,
          details |-> errors, message |-> "All scraping attempts failed"]
  ELSE IF Len(errors) > 0
    THEN [status |-> 422, error |-> "PARTIAL_RESULTS", items |-> allTweets,
          details |-> errors, message |-> "none"]
  ELSE [status |-> 200, error |-> "none", items |-> allTweets,
        details |-> << >>, message |-> "none"]

\* The handler after `await Promise.all(scrapePromises)` resolved.
Aggregate(results) ==
  ChooseReply(SortByCreatedAtDesc(AllTweets(results)), Errors(results))

\* The handler's catch clause for what Promise.all rejected with.
RejectionReply(reason) ==
  IF reason.type = "RATE_LIMIT"
    THEN [status |-> 429, error |-> "RATE_LIMIT", items |-> << >>,
          details |-> << >>, message |-> reason.message]
  ELSE [status |-> 500, error |-> "INTERNAL", items |-> << >>,
        details |-> << >>, message |-> "Unknown error"]

\* Variant of CanStart: `<=` for `<`.
CanStartOffByOne(active, concurrency) == active <= concurrency

\* p-limit: a queued call is started while activeCount < concurrency.
CanStart(active, concurrency) == active < concurrency

\* p-limit: the queue of n calls enqueued at once, the first calls started.
RECURSIVE StartQueued(_, _, _)
StartQueued(tasks, q, active) ==
  IF q # << >> /\ CanStart(active, CONCURRENCY)
    THEN StartQueued([tasks EXCEPT ![Head(q)] = "active"], Tail(q), active + 1)
    ELSE [task |-> tasks, queue |-> q, activeCount |-> active]

InitServer ==
  /\ CONCURRENCY \in 1..MaxConcurrency
  /\ PERSIST_COOKIES_PATH \in BOOLEAN
  /\ ServerIdle
  /\ EntryIdle
  /\ LibIdle
  /\ TimedIdle
  /\ MultiIdle
  /\ maxTweets = 1
  /\ partialOk = FALSE
  /\ persistCookiesPath = FALSE
  /\ pc = "launch"
  /\ browser = "null" /\ context = "null" /\ page = "null"
  /\ blockerCheck = Null
  /\ tweets = << >>
  /\ seenIds = {}
  /\ consecutiveNoNewTweets = 0
  /\ newTweetsFound = 0
  /\ articlesLeft = 0
  /\ completion = Null
  /\ result = Null
  /\ cleanupLogged = FALSE
  /\ doneReason = "none"
  /\ roundStartLen = 0
  /\ zeroRounds = 0
  /\ extractionStarted = FALSE
  /\ cookieSave = "none"
  /\ finallyEntered = FALSE
  /\ sawDuplicate = FALSE
  /\ harvestOrder = << >>
  /\ caughtError = "none"
  /\ cookieLoad = "none"
  /\ skipped = "no"
  /\ loaded = FALSE
  /\ blockedLater = FALSE

\* Number of list URLs received so far.
RECURSIVE SumURLs(_)
SumURLs(r) == IF r = 0 THEN 0 ELSE listURLs[r] + SumURLs(r - 1)

\* The handler up to `await Promise.all`: a limiter of its own, one limited
\* call per URL, and p-limit starting the first calls.
ReceiveRequest ==
  \E r \in Requests, n \in 1..MaxTasks :
    /\ listURLs[r] = 0
    /\ \A q \in 1..(r - 1) : listURLs[q] > 0
    /\ SumURLs(MaxTasks) + n <= MaxTasks
    /\ LET started == StartQueued([i \in 1..n |-> "queued"],
                                  [i \in 1..n |-> i], 0) IN
       /\ task' = [task EXCEPT ![r] = started.task]
       /\ queue' = [queue EXCEPT ![r] = started.queue]
       /\ activeCount' = [activeCount EXCEPT ![r] = started.activeCount]
    /\ listURLs' = [listURLs EXCEPT ![r] = n]
    /\ taskResult' = [taskResult EXCEPT ![r] = [i \in 1..n |-> Null]]
    /\ cookieWrite' = [cookieWrite EXCEPT ![r] = [i \in 1..n |-> "none"]]
    /\ UNCHANGED << CONCURRENCY, PERSIST_COOKIES_PATH, response, notServerVars >>

\* Values of the fulfilled promises, in the order of the URLs.
Results(r, settled) == [i \in 1..listURLs[r] |-> settled[i].value]

\* The calls of scrapeList that are running.
Running == { c \in Requests \X (1..MaxTasks) :
               c[2] <= listURLs[c[1]] /\ task[c[1]][c[2]] = "active" }

\* A running scrapeList, given a persistCookiesPath, leaves its while loop
\* and begins the save: context.cookies(), fs.mkdir, fs.writeFile.
CookieSaveBegins ==
  /\ PERSIST_COOKIES_PATH
  /\ \E c \in Running :
       /\ cookieWrite[c[1]][c[2]] = "none"
       /\ cookieWrite' = [cookieWrite EXCEPT ![c[1]][c[2]] = "writing"]
  /\ UNCHANGED << CONCURRENCY, PERSIST_COOKIES_PATH, listURLs, task,
                  taskResult, activeCount, queue, response, notServerVars >>

\* The save ends: fs.writeFile resolved, or the catch clause warned.
CookieSaveEnds ==
  /\ \E c \in Running :
       /\ cookieWrite[c[1]][c[2]] = "writing"
       /\ cookieWrite' = [cookieWrite EXCEPT ![c[1]][c[2]] = "done"]
  /\ UNCHANGED << CONCURRENCY, PERSIST_COOKIES_PATH, listURLs, task,
                  taskResult, activeCount, queue, response, notServerVars >>

\* How a call can settle, given where its cookie save is: the save comes
\* after the while loop and before `return tweets`, and nothing after it is
\* thrown to the caller.
SettlesAs(write, outcome) ==
  IF outcome.type = "return"
    THEN write = (IF PERSIST_COOKIES_PATH THEN "done" ELSE "none")
    ELSE write = "none"

\* A running scrapeList settles: the limited function settles with it, p-limit
\* frees the slot and starts the next queued call, and the handler replies if
\* Promise.all thereby rejects (first rejection) or resolves (all fulfilled).
ScrapeSettles ==
  \E r \in { q \in Requests : activeCount[q] > 0 } :
  \E i \in { k \in 1..listURLs[r] : task[r][k] = "active" } :
  \E outcome \in { o \in ScrapeOutcomes : SettlesAs(cookieWrite[r][i], o) } :
    /\ LET settled == LimitedTask(i, outcome)
           results == [taskResult[r] EXCEPT ![i] = settled]
           started == StartQueued([task[r] EXCEPT ![i] = settled.state],
                                  queue[r], activeCount[r] - 1)
       IN
       /\ taskResult' = [taskResult EXCEPT ![r] = results]
       /\ task' = [task EXCEPT ![r] = started.task]
       /\ queue' = [queue EXCEPT ![r] = started.queue]
       /\ activeCount' = [activeCount EXCEPT ![r] = started.activeCount]
       /\ response' =
            IF response[r] # Null THEN response
            ELSE IF settled.state = "rejected"
              THEN [response EXCEPT ![r] = RejectionReply(settled.value)]
            ELSE IF \A j \in 1..listURLs[r] :
                      results[j] # Null /\ results[j].state = "fulfilled"
              THEN [response EXCEPT ![r] = Aggregate(Results(r, results))]
            ELSE response
    /\ UNCHANGED << CONCURRENCY, PERSIST_COOKIES_PATH, listURLs, cookieWrite,
                    notServerVars >>

NextServer ==
  \/ ReceiveRequest
  \/ CookieSaveBegins
  \/ CookieSaveEnds
  \/ ScrapeSettles

SpecServer == InitServer /\ [][NextServer]_vars

(* ---------------------------- entry points ---------------------------- *)

\* What `new URL(url)` yields for a string that parses.
Url(protocol, hostname, pathname) ==
  [parses |-> TRUE, protocol |-> protocol, hostname |-> hostname,
   pathname |-> pathname]

\* A string for which `new URL(url)` throws.
NotAUrl ==
  [parses |-> FALSE, protocol |-> "", hostname |-> "", pathname |-> ""]

\* The URL strings the entry points are given.
Urls ==
  { Url("https:", "x.com", "/i/lists/1"),
    Url("https:", "www.twitter.com", "/i/lists/1"),
    Url("http:", "x.com", "/i/lists/1"),
    Url("https:", "google.com", "/i/lists/1"),
    Url("https:", "x.com", "/home"),
    NotAUrl }

\* pathname.includes("/i/lists/"), for the paths the model uses.
IncludesListPath(pathname) == pathname \in {"/i/lists/1", "/u/i/lists/1"}

isValidListUrl(url) ==
  IF ~url.parses THEN FALSE
  ELSE LET isValidHost ==
             \/ url.hostname = "x.com"
             \/ url.hostname = "twitter.com"
             \/ url.hostname = "www.x.com"
             \/ url.hostname = "www.twitter.com"
           hasListPath == IncludesListPath(url.pathname)
       IN isValidHost /\ hasListPath /\ url.protocol = "https:"

\* Variant of normalizeListUrl: the host www.x.com is left as it is.
normalizeListUrlKeepWww(url) ==
  IF ~url.parses THEN url
  ELSE IF url.hostname = "twitter.com" \/ url.hostname = "www.twitter.com"
    THEN [url EXCEPT !.hostname = "x.com"]
  ELSE url

normalizeListUrl(url) ==
  IF ~url.parses THEN url
  ELSE IF url.hostname = "twitter.com" \/ url.hostname = "www.twitter.com"
    THEN [url EXCEPT !.hostname = "x.com"]
  ELSE IF url.hostname = "www.x.com"
    THEN [url EXCEPT !.hostname = "x.com"]
  ELSE url

\* scrapeList(url, options) up to `browser = await chromium.launch(...)`:
\* the url is normalized, never tested, and the browser is launched.
ScrapeListLaunch(url) == [url |-> url, normalizedUrl |-> normalizeListUrl(url)]

\* The calls of scrapeList for the URLs of an array.
LaunchAll(urls) == { ScrapeListLaunch(urls[k]) : k \in DOMAIN urls }

UrlArrays == UNION { [1..n -> Urls] : n \in 0..MaxUrls }

\* An optional property: the empty set when the key is missing, else the set
\* of its one value.
Optional(S) == { {} } \cup { { x } : x \in S }

Value(o) == CHOOSE x \in o : TRUE

\* The values sent for max-tweets / maxTweets and timeout-ms / timeoutMs.
MaxTweetsValues == {0, 1, 2000, 2001}

TimeoutMsValues == {9999, 10000, 300000, 300001}

\* The bodies POST /scrape/list is sent: each of the six keys present or not.
Bodies ==
  [listURL : Optional(UrlArrays), listUrl : Optional(UrlArrays),
   max_tweets : Optional(MaxTweetsValues), maxTweets : Optional(MaxTweetsValues),
   timeout_ms : Optional(TimeoutMsValues), timeoutMs : Optional(TimeoutMsValues)]

\* z.number().int().min(lo).max(hi).optional()
OptionalIntInRange(o, lo, hi) == \A v \in o : v >= lo /\ v <= hi

\* `data.listURL || data.listUrl || []`: an array, even an empty one, is truthy.
ListUrlsOf(data) ==
  IF data.listURL # {} THEN Value(data.listURL)
  ELSE IF data.listUrl # {} THEN Value(data.listUrl)
  ELSE << >>

\* Variant of scrapeListRequestSchema: the refinement `urls.every(isValidListUrl)`
\* is missing.
scrapeListRequestSchemaNoUrlCheck(data) ==
  /\ OptionalIntInRange(data.max_tweets, 1, 2000)
  /\ OptionalIntInRange(data.maxTweets, 1, 2000)
  /\ OptionalIntInRange(data.timeout_ms, 10000, 300000)
  /\ OptionalIntInRange(data.timeoutMs, 10000, 300000)
  /\ (data.listURL # {} \/ data.listUrl # {})
  /\ Len(ListUrlsOf(data)) > 0

\* scrapeListRequestSchema.parse(data) does not throw: the object schema
\* holds, and then the three refinements.
scrapeListRequestSchema(data) ==
  /\ OptionalIntInRange(data.max_tweets, 1, 2000)
  /\ OptionalIntInRange(data.maxTweets, 1, 2000)
  /\ OptionalIntInRange(data.timeout_ms, 10000, 300000)
  /\ OptionalIntInRange(data.timeoutMs, 10000, 300000)
  /\ (data.listURL # {} \/ data.listUrl # {})
  /\ Len(ListUrlsOf(data)) > 0
  /\ \A k \in DOMAIN ListUrlsOf(data) : isValidListUrl(ListUrlsOf(data)[k])

\* Variant of normalizeRequest: the camelCase keys take precedence.
normalizeRequestCamelFirst(raw) ==
  [listURLs |-> IF raw.listUrl # {} THEN Value(raw.listUrl)
                ELSE IF raw.listURL # {} THEN Value(raw.listURL)
                ELSE << >>,
   maxTweets |-> IF raw.maxTweets # {} THEN Value(raw.maxTweets)
                 ELSE IF raw.max_tweets # {} THEN Value(raw.max_tweets)
                 ELSE 200,
   timeoutMs |-> IF raw.timeoutMs # {} THEN Value(raw.timeoutMs)
                 ELSE IF raw.timeout_ms # {} THEN Value(raw.timeout_ms)
                 ELSE 60000]

normalizeRequest(raw) ==
  [listURLs |-> ListUrlsOf(raw),
   maxTweets |-> IF raw.max_tweets # {} THEN Value(raw.max_tweets)
                 ELSE IF raw.maxTweets # {} THEN Value(raw.maxTweets)
                 ELSE 200,
   timeoutMs |-> IF raw.timeout_ms # {} THEN Value(raw.timeout_ms)
                 ELSE IF raw.timeoutMs # {} THEN Value(raw.timeoutMs)
                 ELSE 60000]

\* The reply of the route's catch clause to a ZodError.
ValidationError == [status |-> 400, error |-> "VALIDATION_ERROR"]

InitRequest ==
  /\ InitServer
  /\ CONCURRENCY = 1
  /\ PERSIST_COOKIES_PATH = FALSE

\* POST /scrape/list: the body is parsed; a ZodError is answered 400,
\* otherwise the request is normalized and scrapeList is called for every
\* URL of listURLs.
PostScrapeList ==
  /\ received = Null
  /\ \E body \in Bodies :
      /\ received' = [entry |-> "http", body |-> body]
      /\ IF scrapeListRequestSchema(body)
           THEN /\ normalized' = normalizeRequest(body)
                /\ launched' = LaunchAll(normalized'.listURLs)
                /\ UNCHANGED httpReply
           ELSE /\ httpReply' = ValidationError
                /\ UNCHANGED << normalized, launched >>
      /\ UNCHANGED << exited, ended, notEntryVars >>

\* The CLI: without a URL argument it exits with code 1, otherwise it calls
\* scrapeList with the argument.
CliMain ==
  /\ received = Null
  /\ \E url \in Optional(Urls) :
      /\ received' = [entry |-> "cli", url |-> url]
      /\ IF url = {}
           THEN /\ exited' = TRUE
                /\ UNCHANGED launched
           ELSE /\ launched' = { ScrapeListLaunch(Value(url)) }
                /\ UNCHANGED exited
      /\ UNCHANGED << httpReply, normalized, ended, notEntryVars >>

\* The actor: without listURLs, or with an empty array, it exits with code 1;
\* otherwise it calls scrapeList for every URL in turn.
ActorMain ==
  /\ received = Null
  /\ \E input \in Optional(UrlArrays) :
      /\ received' = [entry |-> "actor", listURLs |-> input]
      /\ IF input = {} \/ Len(Value(input)) = 0
           THEN /\ exited' = TRUE
                /\ UNCHANGED launched
           ELSE /\ launched' = LaunchAll(Value(input))
                /\ UNCHANGED exited
      /\ UNCHANGED << httpReply, normalized, ended, notEntryVars >>

\* A caller of the library calls scrapeList(url).
LibraryCall ==
  /\ received = Null
  /\ \E url \in Urls :
      /\ received' = [entry |-> "library", url |-> url]
      /\ launched' = { ScrapeListLaunch(url) }
      /\ UNCHANGED << httpReply, exited, normalized, ended, notEntryVars >>

\* How a call of scrapeList settles, as far as an entry point can tell: an
\* empty list, a list with a tweet, or an Error of each kind.
EndOutcomes ==
  { o \in ScrapeOutcomes :
      o.type = "return" =>
        \A k \in DOMAIN o.value : k = 1 /\ o.value[k].createdAt = 1 }

\* The status of the reply once every limited call has settled: the catch
\* clause's if Promise.all rejected, else that of the aggregate.
HttpStatus(outcomes) ==
  LET settled == [k \in DOMAIN outcomes |-> LimitedTask(k, outcomes[k])] IN
  IF \E k \in DOMAIN settled : settled[k].state = "rejected"
    THEN RejectionReply(
           settled[CHOOSE k \in DOMAIN settled :
                     settled[k].state = "rejected"].value).status
    ELSE Aggregate([k \in DOMAIN settled |-> settled[k].value]).status

\* The CLI: process.exit(0) after scrapeList returned, process.exit(1) in the
\* catch clause.
CliExitCode(outcome) == IF outcome.type = "return" THEN 0 ELSE 1

\* The actor: process.exit(1) in the catch clause of the loop when the
\* message includes LOGIN_REQUIRED and there is one list URL; otherwise the
\* loop goes on and main ends with Actor.exit(), exit code 0.
ActorExitCode(outcomes) ==
  IF /\ Len(outcomes) = 1
     /\ outcomes[1].type = "throw"
     /\ MessageIncludes(outcomes[1].error, "LOGIN_REQUIRED")
    THEN 1
    ELSE 0

\* POST /scrape/list, the body accepted: every scrapeList settles and the
\* route replies.
HttpEnds ==
  /\ ended = Null
  /\ received # Null
  /\ received.entry = "http"
  /\ normalized # Null
  /\ \E outcomes \in [1..Len(normalized.listURLs) -> EndOutcomes] :
       ended' = [entry |-> "http", outcomes |-> outcomes,
                 code |-> HttpStatus(outcomes)]
  /\ UNCHANGED << received, httpReply, exited, normalized, launched,
                  notEntryVars >>

\* The CLI, given a URL: scrapeList settles and the process exits.
CliEnds ==
  /\ ended = Null
  /\ received # Null
  /\ received.entry = "cli"
  /\ ~exited
  /\ \E outcome \in EndOutcomes :
       ended' = [entry |-> "cli", outcomes |-> << outcome >>,
                 code |-> CliExitCode(outcome)]
  /\ UNCHANGED << received, httpReply, exited, normalized, launched,
                  notEntryVars >>

\* The actor, given list URLs: scrapeList settles for every URL in turn and
\* the process exits.
ActorEnds ==
  /\ ended = Null
  /\ received # Null
  /\ received.entry = "actor"
  /\ ~exited
  /\ \E outcomes \in [1..Len(Value(received.listURLs)) -> EndOutcomes] :
       ended' = [entry |-> "actor", outcomes |-> outcomes,
                 code |-> ActorExitCode(outcomes)]
  /\ UNCHANGED << received, httpReply, exited, normalized, launched,
                  notEntryVars >>

NextRequest ==
  \/ PostScrapeList
  \/ CliMain
  \/ ActorMain
  \/ LibraryCall
  \/ HttpEnds
  \/ CliEnds
  \/ ActorEnds

SpecRequest == InitRequest /\ [][NextRequest]_vars

(* -------------------------- library functions ------------------------- *)

\* The hrefs of the links in an article: the digits after "/status/", 0 when
\* none follow it.
Hrefs == [status : 0..MaxId]

\* extractTweetId(href) for an href holding "/status/": the digits, or null
\* (the empty set).
extractTweetId(href) == IF href.status = 0 THEN {} ELSE { href.status }

\* The articles parseTweetElement is given: the href of the first
\* a[href*="/status/"], the href of the first [role="link"][href*="/status/"]
\* (each the empty set when no element matches), and whether a call on the
\* element handle throws.
Articles ==
  [tweetLink : Optional(Hrefs), quoteTweet : Optional(Hrefs), throws : BOOLEAN]

\* parseTweetElement, as far as id and isQuote go: `undefined !== href` is
\* true, so an article without a second link is a quote.
parseTweetElement(article) ==
  IF article.throws THEN Null
  ELSE LET href == article.tweetLink
           id == IF href = {} THEN {} ELSE extractTweetId(Value(href))
       IN IF id = {} THEN Null
          ELSE [id |-> Value(id), isQuote |-> article.quoteTweet # href]

\* Every URL string of the model: each protocol, host and path, and a string
\* that is no URL.
AllUrls ==
  { Url(protocol, hostname, pathname) :
      protocol \in {"https:", "http:"},
      hostname \in {"x.com", "twitter.com", "www.x.com", "www.twitter.com",
                    "mobile.twitter.com", "google.com"},
      pathname \in {"/i/lists/1", "/u/i/lists/1", "/home"} }
    \cup { NotAUrl }

InitLib == InitRequest

\* checkForBlockers(page) for a page that shows, or does not show, an element
\* matching a login selector and one matching a rate-limit selector.
CallCheckForBlockers ==
  /\ called = Null
  /\ \E loginShown \in BOOLEAN, rateShown \in BOOLEAN :
       /\ called' = [fn |-> "checkForBlockers", loginShown |-> loginShown,
                     rateShown |-> rateShown]
       /\ returned' = checkForBlockers(loginShown, rateShown)
  /\ UNCHANGED notLibVars

CallParseTweetElement ==
  /\ called = Null
  /\ \E article \in Articles :
       /\ called' = [fn |-> "parseTweetElement", article |-> article]
       /\ returned' = parseTweetElement(article)
  /\ UNCHANGED notLibVars

CallIsValidListUrl ==
  /\ called = Null
  /\ \E url \in AllUrls :
       /\ called' = [fn |-> "isValidListUrl", url |-> url]
       /\ returned' = [value |-> isValidListUrl(url)]
  /\ UNCHANGED notLibVars

\* normalizeListUrl(url), for a URL string or for what an earlier call
\* returned.
CallNormalizeListUrl ==
  /\ \/ /\ called = Null
        /\ \E url \in AllUrls :
             called' = [fn |-> "normalizeListUrl", url |-> url, nth |-> 1]
     \/ /\ called # Null
        /\ called.fn = "normalizeListUrl"
        /\ called.nth = 1
        /\ called' = [fn |-> "normalizeListUrl", url |-> returned.value,
                      nth |-> 2]
  /\ returned' = [value |-> normalizeListUrl(called'.url)]
  /\ UNCHANGED notLibVars

(* ------------------------------ lib/time ------------------------------ *)

\* A Date: the day number since 1970-01-01 and the millisecond of that day,
\* or an invalid Date (time value NaN).
DateValue(days, ms) == [valid |-> TRUE, days |-> days, ms |-> ms]

InvalidDate == [valid |-> FALSE, days |-> 0, ms |-> 0]

\* The day number of the date year-month-day of the proleptic Gregorian
\* calendar, month counted from 1 (the day arithmetic of Date.UTC).
DaysFromCivil(year, month, day) ==
  LET y == IF month <= 2 THEN year - 1 ELSE year
      era == y \div 400
      yoe == y - era * 400
      mp == IF month > 2 THEN month - 3 ELSE month + 9
      doy == (153 * mp + 2) \div 5 + day - 1
      doe == yoe * 365 + yoe \div 4 - yoe \div 100 + doy
  IN era * 146097 + doe - 719468

\* The year, month (from 1) and day of a day number (the arithmetic of
\* getUTCFullYear, getUTCMonth and getUTCDate).
CivilFromDays(days) ==
  LET z == days + 719468
      era == z \div 146097
      doe == z - era * 146097
      yoe == (doe - doe \div 1460 + doe \div 36524 - doe \div 146096) \div 365
      doy == doe - (365 * yoe + yoe \div 4 - yoe \div 100)
      mp == (5 * doy + 2) \div 153
      month == IF mp < 10 THEN mp + 3 ELSE mp - 9
  IN [year |-> yoe + era * 400 + (IF month <= 2 THEN 1 ELSE 0),
      month |-> month,
      day |-> doy - (153 * mp + 2) \div 5 + 1]

\* new Date(Date.UTC(year, monthIndex, day, hours, minutes, seconds)), for
\* fields in their ranges: a year from 0 to 99 stands for 1900 + year.
DateUTC(year, monthIndex, day, hours, minutes, seconds) ==
  LET fullYear == IF year >= 0 /\ year <= 99 THEN 1900 + year ELSE year IN
  DateValue(DaysFromCivil(fullYear, monthIndex + 1, day),
            ((hours * 60 + minutes) * 60 + seconds) * 1000)

getUTCDay(date) == (date.days + 4) % 7

getUTCFullYear(date) == CivilFromDays(date.days).year

getUTCMonth(date) == CivilFromDays(date.days).month - 1

getUTCDate(date) == CivilFromDays(date.days).day

getUTCHours(date) == date.ms \div 3600000

getUTCMinutes(date) == (date.ms \div 60000) % 60

getUTCSeconds(date) == (date.ms \div 1000) % 60

days == << "Sun", "Mon", "Tue", "Wed", "Thu", "Fri", "Sat" >>

months ==
  << "Jan", "Feb", "Mar", "Apr", "May", "Jun", "Jul", "Aug", "Sep", "Oct",
     "Nov", "Dec" >>

\* The number of decimal digits of a natural number.
RECURSIVE Digits(_)
Digits(n) == IF n < 10 THEN 1 ELSE 1 + Digits(n \div 10)

\* String(n) for an integer, "NaN" for NaN: the number written and the
\* width of the text (a minus sign counts).
NumberText(n) ==
  [nan |-> FALSE, n |-> n,
   width |-> IF n < 0 THEN 1 + Digits(0 - n) ELSE Digits(n)]

NaNText == [nan |-> TRUE, n |-> 0, width |-> 3]

\* text.padStart(2, "0")
PadStart2(text) ==
  IF text.width >= 2 THEN text ELSE [text EXCEPT !.width = 2]

\* The text of a field of an invalid Date is "NaN"; an array indexed by NaN
\* yields undefined.
formatTwitterTimestamp(date) ==
  IF ~date.valid
    THEN [day |-> "undefined", month |-> "undefined",
          dateNum |-> PadStart2(NaNText), hours |-> PadStart2(NaNText),
          minutes |-> PadStart2(NaNText), seconds |-> PadStart2(NaNText),
          year |-> NaNText]
    ELSE [day |-> days[getUTCDay(date) + 1],
          month |-> months[getUTCMonth(date) + 1],
          dateNum |-> PadStart2(NumberText(getUTCDate(date))),
          hours |-> PadStart2(NumberText(getUTCHours(date))),
          minutes |-> PadStart2(NumberText(getUTCMinutes(date))),
          seconds |-> PadStart2(NumberText(getUTCSeconds(date))),
          year |-> NumberText(getUTCFullYear(date))]

\* A text matches \d{k}: k digits, no sign.
MatchesDigits(text, k) == ~text.nan /\ text.n >= 0 /\ text.width = k

\* A name matches \w{3}.
MatchesWord3(name) == name # "undefined"

\* dateStr.match(twitterFormat) is not null.
MatchesTwitterFormat(dateStr) ==
  /\ MatchesWord3(dateStr.day)
  /\ MatchesWord3(dateStr.month)
  /\ MatchesDigits(dateStr.dateNum, 2)
  /\ MatchesDigits(dateStr.hours, 2)
  /\ MatchesDigits(dateStr.minutes, 2)
  /\ MatchesDigits(dateStr.seconds, 2)
  /\ MatchesDigits(dateStr.year, 4)

\* months.indexOf(month)
IndexOfMonth(month) ==
  IF \E k \in DOMAIN months : months[k] = month
    THEN (CHOOSE k \in DOMAIN months : months[k] = month) - 1
    ELSE 0 - 1

\* The instant a string of the Twitter format names.
NamedDate(dateStr) ==
  DateUTC(dateStr.year.n, IndexOfMonth(dateStr.month), dateStr.dateNum.n,
          dateStr.hours.n, dateStr.minutes.n, dateStr.seconds.n)

\* `new Date(dateStr)` for a string that is not in the ISO format: what the
\* engine's own parser makes of it. An engine that reads the Twitter format
\* yields the instant the string names; otherwise, and for a string of an
\* invalid Date, the Date is invalid.
NewDate(dateStr, engineReadsFormat) ==
  IF engineReadsFormat /\ MatchesWord3(dateStr.day) /\ ~dateStr.year.nan
    THEN NamedDate(dateStr)
    ELSE InvalidDate

\* Variant of parseTwitterDate: monthIndex is used as a month counted from 1.
parseTwitterDateMonthFromOne(dateStr, engineReadsFormat, now) ==
  IF MatchesTwitterFormat(dateStr)
    THEN DateUTC(dateStr.year.n, IndexOfMonth(dateStr.month) - 1,
                 dateStr.dateNum.n, dateStr.hours.n, dateStr.minutes.n,
                 dateStr.seconds.n)
    ELSE now

\* parseTwitterDate(dateStr) on an engine that reads the Twitter format or
\* does not, `new Date()` being now.
parseTwitterDate(dateStr, engineReadsFormat, now) ==
  IF NewDate(dateStr, engineReadsFormat).valid
    THEN NewDate(dateStr, engineReadsFormat)
  ELSE IF MatchesTwitterFormat(dateStr)
    THEN DateUTC(dateStr.year.n, IndexOfMonth(dateStr.month),
                 dateStr.dateNum.n, dateStr.hours.n, dateStr.minutes.n,
                 dateStr.seconds.n)
  ELSE now

\* The Dates formatTwitterTimestamp is given.
Dates ==
  { [DateUTC(year, monthIndex, day, hours, minutes, minutes)
       EXCEPT !.ms = @ + millis] :
      year \in {999, 1000, 1970, 2024, 2025, 9999, 10000},
      monthIndex \in {0, 1, 10, 11},
      day \in {1, 4, 28},
      hours \in {0, 19, 23},
      minutes \in {0, 59},
      millis \in {0, 999} }
    \cup { InvalidDate }

\* The values of `new Date()`.
Nows == { DateUTC(2025, 10, 4, 19, 6, 32), DateUTC(2026, 0, 1, 0, 0, 0) }

\* formatTwitterTimestamp(parseTwitterDate(formatTwitterTimestamp(date)))
CallTimestampRoundTrip ==
  /\ called = Null
  /\ \E date \in Dates, engineReadsFormat \in BOOLEAN, now \in Nows :
       /\ called' = [fn |-> "formatTwitterTimestamp", date |-> date,
                     engineReadsFormat |-> engineReadsFormat, now |-> now]
       /\ returned' =
            LET s == formatTwitterTimestamp(date)
                parsed == parseTwitterDate(s, engineReadsFormat, now)
            IN [s |-> s, parsed |-> parsed,
                again |-> formatTwitterTimestamp(parsed)]
  /\ UNCHANGED notLibVars

NextLib ==
  \/ CallCheckForBlockers
  \/ CallParseTweetElement
  \/ CallIsValidListUrl
  \/ CallNormalizeListUrl
  \/ CallTimestampRoundTrip

SpecLib == InitLib /\ [][NextLib]_vars

(* ------------------------- scrapeMultipleLists ------------------------ *)

\* The arrays scrapeMultipleLists is given.
TargetArrays == UNION { [1..n -> Urls] : n \in 0..MaxTargets }

\* Variant of TargetEntry: the catch clause pushes no error.
TargetEntryNoError(url, outcome) ==
  IF outcome.type = "return"
    THEN [url |-> url, tweets |-> outcome.value, error |-> {}]
    ELSE [url |-> url, tweets |-> << >>, error |-> {}]

\* The entry pushed for a URL: `{ url, tweets }` when scrapeList returned,
\* `{ url, tweets: [], error: errorMessage }` from the catch clause. The error
\* property is the empty set when the entry has none.
TargetEntry(url, outcome) ==
  IF outcome.type = "return"
    THEN [url |-> url, tweets |-> outcome.value, error |-> {}]
    ELSE [url |-> url, tweets |-> << >>, error |-> { outcome.error }]

\* scrapeMultipleLists(urls) is called: `const results = []`.
CallScrapeMultipleLists ==
  /\ multiCall = Null
  /\ \E urls \in TargetArrays : multiCall' = [urls |-> urls]
  /\ UNCHANGED << multiResults, multiOutcomes, multiActive, multiReturned,
                  notMultiVars >>

\* The for loop reaches the next URL: `await scrapeList(url, options)`.
TargetStarts ==
  /\ multiCall # Null
  /\ multiReturned = Null
  /\ multiActive = {}
  /\ Len(multiResults) < Len(multiCall.urls)
  /\ multiActive' = { Len(multiResults) + 1 }
  /\ UNCHANGED << multiCall, multiResults, multiOutcomes, multiReturned,
                  notMultiVars >>

\* The awaited scrapeList settles and the entry is pushed, by the try block or
\* by the catch clause.
TargetSettles ==
  /\ multiActive # {}
  /\ \E i \in multiActive, outcome \in EndOutcomes :
       /\ multiResults' = Append(multiResults, TargetEntry(multiCall.urls[i], outcome))
       /\ multiOutcomes' = Append(multiOutcomes, outcome)
       /\ multiActive' = multiActive \ { i }
  /\ UNCHANGED << multiCall, multiReturned, notMultiVars >>

\* After the for loop: `return results`.
ReturnResults ==
  /\ multiCall # Null
  /\ multiReturned = Null
  /\ multiActive = {}
  /\ Len(multiResults) = Len(multiCall.urls)
  /\ multiReturned' = [type |-> "return", value |-> multiResults]
  /\ UNCHANGED << multiCall, multiResults, multiOutcomes, multiActive,
                  notMultiVars >>

InitMultiple == InitRequest

NextMultiple ==
  \/ CallScrapeMultipleLists
  \/ TargetStarts
  \/ TargetSettles
  \/ ReturnResults

SpecMultiple == InitMultiple /\ [][NextMultiple]_vars

(* --------------------------- session timing --------------------------- *)

\* waitForTweets(page, 12000) and waitForTweets(page, 8000)
firstWaitMs == 12000

secondWaitMs == 8000

\* scrollToLoadMore: page.waitForTimeout(1500)
scrollWaitMs == 1500

\* The delay that ends a round: page.waitForTimeout(500)
settleMs == 500

\* The timeoutMs a session is given: the default and the least and largest
\* the route accepts.
SessionTimeouts ==
  { defaultTimeoutMs } \cup { t \in TimeoutMsValues : t >= 10000 /\ t <= 300000 }

\* How long the page takes to do what an operation waits for.
Durations == {0, 5000, 9000, 20000, 400000}

\* How long the page queries of one round take.
RoundDurations == {0, 1000}

\* An operation that waits at most `limit` for something that takes d: it
\* succeeds after d, or gives up after limit.
Waited(d, limit) ==
  IF d < limit THEN [ok |-> TRUE, took |-> d] ELSE [ok |-> FALSE, took |-> limit]

\* scrapeList is called: page.setDefaultTimeout(opts.timeoutMs).
SetDefaultTimeout ==
  /\ timedPc = "idle"
  /\ timeoutMs' \in SessionTimeouts
  /\ timedPc' = "goto"
  /\ UNCHANGED << elapsed, rounds, ending, notTimedVars >>

\* page.goto: it waits at most the default timeout; beyond it Playwright
\* throws a TimeoutError, which scrapeList throws on.
TimedGoto ==
  /\ timedPc = "goto"
  /\ \E d \in Durations :
       LET w == Waited(d, timeoutMs) IN
       /\ elapsed' = elapsed + w.took
       /\ IF w.ok
            THEN timedPc' = "wait1" /\ UNCHANGED ending
            ELSE timedPc' = "done" /\ ending' = "timeout"
  /\ UNCHANGED << timeoutMs, rounds, notTimedVars >>

\* waitForTweets(page, 12000): its own timeout, whatever opts.timeoutMs is;
\* on a timeout it returns false.
TimedWaitForTweets1 ==
  /\ timedPc = "wait1"
  /\ \E d \in Durations :
       LET w == Waited(d, firstWaitMs) IN
       /\ elapsed' = elapsed + w.took
       /\ timedPc' = IF w.ok THEN "loop" ELSE "scroll1"
  /\ UNCHANGED << timeoutMs, rounds, ending, notTimedVars >>

\* scrollToLoadMore(page) after the first wait failed.
TimedScrollFirst ==
  /\ timedPc = "scroll1"
  /\ elapsed' = elapsed + scrollWaitMs
  /\ timedPc' = "wait2"
  /\ UNCHANGED << timeoutMs, rounds, ending, notTimedVars >>

\* waitForTweets(page, 8000); if it fails too, "No tweets found" is thrown.
TimedWaitForTweets2 ==
  /\ timedPc = "wait2"
  /\ \E d \in Durations :
       LET w == Waited(d, secondWaitMs) IN
       /\ elapsed' = elapsed + w.took
       /\ IF w.ok
            THEN timedPc' = "loop" /\ UNCHANGED ending
            ELSE timedPc' = "done" /\ ending' = "noTweets"
  /\ UNCHANGED << timeoutMs, rounds, notTimedVars >>

\* One round of the while loop: the page queries, then either the loop is
\* left (cap, end of feed, stall) and the tweets are returned, or
\* scrollToLoadMore and the 500 ms delay. No step of the loop reads a clock.
TimedRound ==
  /\ timedPc = "loop"
  /\ \E d \in RoundDurations :
       \/ /\ elapsed' = elapsed + d
          /\ timedPc' = "done"
          /\ ending' = "returned"
          /\ UNCHANGED rounds
       \/ /\ rounds < MaxRounds
          /\ elapsed' = elapsed + d + scrollWaitMs + settleMs
          /\ rounds' = rounds + 1
          /\ UNCHANGED << timedPc, ending >>
  /\ UNCHANGED << timeoutMs, notTimedVars >>

InitTimed == InitRequest

NextTimed ==
  \/ SetDefaultTimeout
  \/ TimedGoto
  \/ TimedWaitForTweets1
  \/ TimedScrollFirst
  \/ TimedWaitForTweets2
  \/ TimedRound

SpecTimed == InitTimed /\ [][NextTimed]_vars

(* ------------------------------ properties ---------------------------- *)

NoDuplicateIds(s) ==
  \A i \in DOMAIN s, j \in DOMAIN s : i # j => s[i].id # s[j].id

IdsOf(s) == { s[i].id : i \in DOMAIN s }

Returned == result # Null /\ result.type = "return"

Thrown == result # Null /\ result.type = "throw"

\* C1: whatever the page shows in whatever rounds, the accumulated list, and
\* the list scrapeList returns, never hold two records with the same id.
C1_DedupInvariant ==
  /\ NoDuplicateIds(tweets)
  /\ Returned => NoDuplicateIds(result.value)

\* scrapeList returned two records although an already seen id was parsed again.
C1_Witness ==
  /\ pc = "done"
  /\ Returned
  /\ sawDuplicate
  /\ Len(result.value) = 2

\* C2: in every state of the loop, and in the returned list, the number of
\* accumulated records is at most maxTweets.
C2_MaxTweetsBound ==
  /\ Len(tweets) <= maxTweets
  /\ Returned => Len(result.value) <= maxTweets

\* The cap was reached in the middle of a snapshot and exactly maxTweets
\* records were returned.
C2_Witness ==
  /\ pc = "done"
  /\ Returned
  /\ doneReason = "CapReached"
  /\ articlesLeft > 0
  /\ Len(result.value) = maxTweets

\* C4: the caller observes an outcome only after the finally block was
\* entered, and the outcome is the one the try/catch chose (the returned
\* records or the upstream error), also when a close call failed.
C4_TeardownAlwaysReached ==
  result # Null =>
    /\ finallyEntered
    /\ result = completion
    /\ Thrown => result.error \in ErrorKinds

\* A close call failed while RATE_LIMIT was propagating; the caller got
\* RATE_LIMIT.
C4_Witness ==
  /\ pc = "done"
  /\ cleanupLogged
  /\ Thrown
  /\ result.error = "RATE_LIMIT"

\* C5: while the loop runs, the stall counter equals the number of
\* consecutive finished rounds that added nothing (so it is zero after a round
\* that added a record) and is below five; the loop ends as Stalled exactly at
\* the fifth such round, and then scrapeList returns the accumulated records.
C5_StallTermination ==
  /\ pc \in {"loop", "parse", "roundEnd", "scroll"} =>
       /\ consecutiveNoNewTweets = zeroRounds
       /\ zeroRounds < 5
  /\ zeroRounds <= 5
  /\ doneReason = "Stalled" => zeroRounds = 5
  /\ zeroRounds = 5 => doneReason \in {"Stalled", "EndOfFeed"}
  /\ (pc = "done" /\ doneReason = "Stalled") =>
       /\ Returned
       /\ IdsOf(result.value) = seenIds
       /\ Len(result.value) = Cardinality(seenIds)

\* The loop harvested a record, then stalled five rounds and returned it.
C5_Witness ==
  /\ pc = "done"
  /\ doneReason = "Stalled"
  /\ Returned
  /\ Len(result.value) >= 1

Blocked == blockerCheck # Null /\ blockerCheck.blocked

\* C6 as claimed: a blocked page is never waited on or harvested, and the
\* call ends as a failure of the blocker's kind.
C6_BlockedFails ==
  Blocked =>
    /\ ~extractionStarted
    /\ tweets = << >>
    /\ pc = "done" => (Thrown /\ result.error = blockerCheck.reason)

\* C6 amended: a blocked page is never waited on or harvested; the call ends
\* as a failure of the blocker's kind when partialOk is unset, and as an empty
\* list when partialOk is set.
C6_BlockedFailsUnlessPartialOk ==
  Blocked =>
    /\ ~extractionStarted
    /\ tweets = << >>
    /\ seenIds = {}
    /\ pc = "done" =>
         IF partialOk
           THEN Returned /\ result.value = << >>
           ELSE Thrown /\ result.error = blockerCheck.reason

\* A login wall right after navigation, partialOk unset: LOGIN_REQUIRED thrown.
C6_Witness ==
  /\ pc = "done"
  /\ Blocked
  /\ blockerCheck.reason = "LOGIN_REQUIRED"
  /\ ~partialOk
  /\ Thrown

Settled(r, i) == i <= listURLs[r] /\ taskResult[r][i] # Null

\* scrapeList threw for URL i of request r.
Failed(r, i) ==
  /\ Settled(r, i)
  /\ \/ taskResult[r][i].state = "rejected"
     \/ taskResult[r][i].value.error # "null"

\* scrapeList returned for URL i of request r.
Succeeded(r, i) == Settled(r, i) /\ ~Failed(r, i)

\* The kind of the error scrapeList threw for URL i of request r.
ErrorOf(r, i) ==
  IF taskResult[r][i].state = "rejected"
    THEN taskResult[r][i].value.message
    ELSE taskResult[r][i].value.error

RateLimited(r, i) == Failed(r, i) /\ ErrorOf(r, i) = "RATE_LIMIT"

\* C3: a request with two URLs, one of which failed as RATE_LIMIT while the
\* other succeeded with records, is answered as a partial success with the
\* records of the successful URL and one error entry.
C3_FailureIsolated ==
  \A r \in Requests :
    \A i \in 1..2, j \in 1..2 :
      (/\ listURLs[r] = 2
       /\ RateLimited(r, i)
       /\ Succeeded(r, j)
       /\ taskResult[r][j].value.tweets # << >>) =>
        /\ response[r] # Null
        /\ response[r].status = 422
        /\ response[r].items = taskResult[r][j].value.tweets
        /\ Len(response[r].details) = 1

\* Promise.all resolved for request r: every limited call was fulfilled, so
\* the reply is the one the merge chose.
Merged(r) ==
  /\ listURLs[r] > 0
  /\ \A i \in 1..listURLs[r] :
       Settled(r, i) /\ taskResult[r][i].state = "fulfilled"

TotalFailure(resp) == resp.status = 500 /\ resp.items = << >>

PartialSuccess(resp) == resp.status = 422

FullSuccess(resp) == resp.status = 200

\* C7: the reply the merge chooses is a total failure iff every URL failed, a
\* partial success iff some failed and some succeeded, a full success iff none
\* failed, however many records the successful URLs returned.
C7_ClassByFailedTargets ==
  \A r \in Requests :
    Merged(r) =>
      LET failed == { i \in 1..listURLs[r] : Failed(r, i) }
          all == 1..listURLs[r]
      IN
      /\ response[r] # Null
      /\ TotalFailure(response[r]) <=> failed = all
      /\ PartialSuccess(response[r]) <=> (failed # {} /\ failed # all)
      /\ FullSuccess(response[r]) <=> failed = {}

\* C8: the rate-limit signal (429, error RATE_LIMIT) is sent only for a
\* rate-limited URL, never for a login wall.
C8_LoginNotRateLimit ==
  \A r \in Requests :
    (response[r] # Null
       /\ (response[r].status = 429 \/ response[r].error = "RATE_LIMIT")) =>
      response[r].message = "RATE_LIMIT"

ActiveTasks(r) == { i \in 1..listURLs[r] : task[r][i] = "active" }

\* A call that was queued starts only in a step in which a running call of
\* the same request settles.
StartsOnlyWhenSlotFrees ==
  \A r \in Requests, i \in 1..MaxTasks :
    (i <= listURLs[r] /\ task[r][i] = "queued" /\ task'[r][i] = "active") =>
      \E j \in 1..listURLs[r] :
        task[r][j] = "active" /\ task'[r][j] \in {"fulfilled", "rejected"}

\* C9: within one request never more than CONCURRENCY calls of scrapeList
\* are active, every call beyond the limit waits in the queue, and a queued
\* call starts only when a running one has settled, fulfilled or rejected.
C9_BoundedConcurrency ==
  /\ [](\A r \in Requests :
          /\ Cardinality(ActiveTasks(r)) <= CONCURRENCY
          /\ activeCount[r] = Cardinality(ActiveTasks(r))
          /\ queue[r] # << >> => Cardinality(ActiveTasks(r)) = CONCURRENCY)
  /\ [][StartsOnlyWhenSlotFrees]_vars

\* With CONCURRENCY 1: the first URL was rejected and only then the second
\* one started.
C9_Witness ==
  \E r \in Requests :
    /\ CONCURRENCY = 1
    /\ listURLs[r] = 2
    /\ task[r] = << "rejected", "active" >>

RECURSIVE TotalActive(_)
TotalActive(r) ==
  IF r = 0 THEN 0 ELSE Cardinality(ActiveTasks(r)) + TotalActive(r - 1)

\* C10: over all requests in flight, never more than CONCURRENCY calls of
\* scrapeList are active.
C10_ProcessWideBound == TotalActive(MaxTasks) <= CONCURRENCY

\* C11: a request is answered only after every one of its calls of
\* scrapeList has settled; none is running or queued when the reply is sent.
C11_ReplyAfterAllSettled ==
  \A r \in Requests :
    response[r] # Null =>
      \A i \in 1..listURLs[r] : task[r][i] \in {"fulfilled", "rejected"}

\* The reply of request r carries the tweets of a merge.
CarriesRecords(r) ==
  response[r] # Null /\ response[r].status \in {200, 422}

\* The tweets of sequence s whose sourceListURL is url, in the order of s.
FromSource(s, url) ==
  LET IsFrom(t) == t.sourceListURL = url IN SelectSeq(s, IsFrom)

C20_DedupPerTargetOnly ==
  \A r \in Requests :
    CarriesRecords(r) =>
      \A i \in 1..listURLs[r] :
        FromSource(response[r].items, i) = taskResult[r][i].value.tweets

\* Both URLs returned a tweet with the same id: the reply holds it twice,
\* once per URL.
C20_Witness ==
  \E r \in Requests :
    /\ CarriesRecords(r)
    /\ Len(response[r].items) = 2
    /\ response[r].items[1].id = response[r].items[2].id
    /\ response[r].items[1].sourceListURL # response[r].items[2].sourceListURL

\* scrapeList returned from the statement `return tweets`, not from the catch
\* clause.
ReturnedTweets == pc = "done" /\ Returned /\ caughtError = "none"

\* The index of tweet t in the list s of tweets with distinct ids.
IndexOf(s, t) == CHOOSE k \in DOMAIN s : s[k].id = t.id

C14_CookiesAlwaysPersisted ==
  (finallyEntered /\ persistCookiesPath /\ context # "null") =>
    cookieSave # "none"

\* An error reached the catch clause of scrapeList.
Caught == pc = "done" /\ caughtError # "none"

C16_PartialResultsReturned ==
  (Caught /\ partialOk /\ harvestOrder # << >>) =>
    /\ Returned
    /\ Len(result.value) = Len(harvestOrder)
    /\ IdsOf(result.value) = IdsOf(harvestOrder)

\* C17: whatever the entry point, scrapeList launches a browser only for a
\* URL that isValidListUrl accepts.
C17_InvalidUrlNeverLaunched ==
  \A call \in launched : isValidListUrl(call.url)

\* POST /scrape/list was sent a body.
Posted == received # Null /\ received.entry = "http"

\* The numbers a body gives for max-tweets / maxTweets and for
\* timeout-ms / timeoutMs, under either key.
GivenMaxTweets(body) == body.max_tweets \cup body.maxTweets

GivenTimeoutMs(body) == body.timeout_ms \cup body.timeoutMs

\* The URL arrays a body gives, under either key.
GivenArrays(body) == body.listURL \cup body.listUrl

\* A body as the claim calls it invalid: no URL array, an empty array, a URL
\* that is no list URL, or a number outside its range, under either key.
InvalidBody(body) ==
  \/ GivenArrays(body) = {}
  \/ \E urls \in GivenArrays(body) :
       \/ Len(urls) = 0
       \/ \E k \in DOMAIN urls : ~isValidListUrl(urls[k])
  \/ \E n \in GivenMaxTweets(body) : n < 1 \/ n > 2000
  \/ \E n \in GivenTimeoutMs(body) : n < 10000 \/ n > 300000

\* C18: a body is answered 400 VALIDATION_ERROR, and no scrapeList is
\* called for it, exactly when it is invalid.
C18_BadRequestIffInvalid ==
  Posted =>
    /\ InvalidBody(received.body) <=> httpReply = ValidationError
    /\ httpReply = ValidationError => (launched = {} /\ normalized = Null)

\* C19: in what normalizeRequest returns, each setting is the value of the
\* hyphenated key when the body has it, else the value of the camelCase key
\* when the body has that, else the default (200 tweets, 60000 ms).
C19_HyphenatedKeysFirst ==
  (Posted /\ normalized # Null) =>
    LET raw == received.body IN
    /\ raw.listURL # {} => normalized.listURLs \in raw.listURL
    /\ (raw.listURL = {} /\ raw.listUrl # {}) =>
         normalized.listURLs \in raw.listUrl
    /\ raw.max_tweets # {} => normalized.maxTweets \in raw.max_tweets
    /\ (raw.max_tweets = {} /\ raw.maxTweets # {}) =>
         normalized.maxTweets \in raw.maxTweets
    /\ GivenMaxTweets(raw) = {} => normalized.maxTweets = 200
    /\ raw.timeout_ms # {} => normalized.timeoutMs \in raw.timeout_ms
    /\ (raw.timeout_ms = {} /\ raw.timeoutMs # {}) =>
         normalized.timeoutMs \in raw.timeoutMs
    /\ GivenTimeoutMs(raw) = {} => normalized.timeoutMs = 60000

\* A body with different values under the two keys of every setting: the
\* values of the hyphenated keys were taken.
C19_Witness ==
  /\ Posted
  /\ normalized # Null
  /\ received.body.listURL # {} /\ received.body.listUrl # {}
  /\ received.body.listURL # received.body.listUrl
  /\ received.body.max_tweets = {1} /\ received.body.maxTweets = {2000}
  /\ received.body.timeout_ms = {10000} /\ received.body.timeoutMs = {300000}
  /\ normalized.maxTweets = 1
  /\ normalized.timeoutMs = 10000
  /\ normalized.listURLs \in received.body.listURL

\* C22: with partialOk unset, a call of scrapeList that returns, returns at
\* least one record.
C22_SuccessHasRecords ==
  (ReturnedTweets /\ ~partialOk) => Len(result.value) >= 1

\* formatTwitterTimestamp was given a Date, and what it returned was parsed
\* and formatted again.
RoundTripped == called # Null /\ called.fn = "formatTwitterTimestamp"

\* C25 as claimed: for the string s formatTwitterTimestamp returns for any
\* Date, formatting parseTwitterDate(s) yields s again.
C25_RoundTrip == RoundTripped => returned.again = returned.s

\* C25 amended: for the string s formatTwitterTimestamp returns for a valid
\* Date whose UTC year has four digits, formatting parseTwitterDate(s) yields
\* s again, whether or not the engine's Date parser reads the format.
C25_RoundTripOfCanonical ==
  (/\ RoundTripped
   /\ called.date.valid
   /\ getUTCFullYear(called.date) >= 1000
   /\ getUTCFullYear(called.date) <= 9999) =>
    /\ MatchesTwitterFormat(returned.s)
    /\ returned.again = returned.s
    /\ returned.parsed = [called.date EXCEPT !.ms = (@ \div 1000) * 1000]

\* 2025-11-04T19:00:00.999Z is formatted as "Tue Nov 04 19:00:00 +0000 2025"
\* and, on an engine that does not read the format, parsed by the regular
\* expression and formatted to the same string.
C25_Witness ==
  /\ RoundTripped
  /\ ~called.engineReadsFormat
  /\ called.date = [DateUTC(2025, 10, 4, 19, 0, 0) EXCEPT !.ms = @ + 999]
  /\ returned.s.day = "Tue"
  /\ returned.s.month = "Nov"
  /\ returned.s.dateNum = [nan |-> FALSE, n |-> 4, width |-> 2]
  /\ returned.s.hours.n = 19
  /\ returned.s.year.n = 2025
  /\ returned.again = returned.s

AcceptedHosts == {"x.com", "twitter.com", "www.x.com", "www.twitter.com"}

\* A URL string as the claim describes an accepted one.
IsListUrl(url) ==
  /\ url.parses
  /\ url.protocol = "https:"
  /\ url.hostname \in AcceptedHosts
  /\ IncludesListPath(url.pathname)

\* C26: isValidListUrl accepts exactly the https URLs on an accepted host
\* whose path holds /i/lists/; normalizeListUrl maps an accepted URL to the
\* same protocol and path on x.com, which is accepted too, and maps what it
\* returned to itself.
C26_ValidateAndNormalize ==
  /\ (called # Null /\ called.fn = "isValidListUrl") =>
       (returned.value <=> IsListUrl(called.url))
  /\ (called # Null /\ called.fn = "normalizeListUrl") =>
       /\ IsListUrl(called.url) =>
            /\ returned.value =
                 Url(called.url.protocol, "x.com", called.url.pathname)
            /\ isValidListUrl(returned.value)
       /\ called.nth = 2 => returned.value = called.url

\* https://www.x.com/u/i/lists/1 was normalized to https://x.com/u/i/lists/1,
\* and that was normalized again.
C26_Witness ==
  /\ called # Null
  /\ called.fn = "normalizeListUrl"
  /\ called.nth = 2
  /\ called.url = Url("https:", "x.com", "/u/i/lists/1")
  /\ returned.value = called.url

\* C27: in the record parseTweetElement returns, isQuote is true only if the
\* article has a second link whose href differs from the href of the tweet's
\* own link; without a second link isQuote is false.
C27_QuoteNeedsSecondLink ==
  (called # Null /\ called.fn = "parseTweetElement" /\ returned # Null) =>
    /\ returned.isQuote =>
         /\ called.article.quoteTweet # {}
         /\ called.article.quoteTweet # called.article.tweetLink
    /\ called.article.quoteTweet = {} => ~returned.isQuote

\* C29: checkForBlockers returns LOGIN_REQUIRED for a page showing a login
\* element, with or without rate-limit text, RATE_LIMIT for a page showing
\* only rate-limit text, and not blocked for a page showing neither.
C29_LoginBeforeRateLimit ==
  (called # Null /\ called.fn = "checkForBlockers") =>
    /\ called.loginShown =>
         (returned.blocked /\ returned.reason = "LOGIN_REQUIRED")
    /\ (~called.loginShown /\ called.rateShown) =>
         (returned.blocked /\ returned.reason = "RATE_LIMIT")
    /\ (~called.loginShown /\ ~called.rateShown) => ~returned.blocked

\* A page showing both a login element and rate-limit text: LOGIN_REQUIRED.
C29_Witness ==
  /\ called # Null
  /\ called.fn = "checkForBlockers"
  /\ called.loginShown /\ called.rateShown
  /\ returned.reason = "LOGIN_REQUIRED"

\* A record as parseTweetElement returns one: not null, its id not empty.
HasId(t) == t # Null /\ t.id \in Ids

\* The step of the for loop that parsed an article and pushed nothing: the
\* parse returned null (no id, or a throw caught inside the parser) or a
\* tweet already seen.
ParsedNothing ==
  /\ pc = "parse"
  /\ articlesLeft' = articlesLeft - 1
  /\ tweets' = tweets

\* C28: an article whose parse returns null (its id cannot be extracted, or
\* the parse threw) adds nothing to seenIds or to tweets and leaves the for
\* loop running with nothing thrown; every record in tweets, in seenIds and in
\* the returned list has a non-empty id.
C28_NullParseSkipsItemOnly ==
  /\ [](/\ \A k \in DOMAIN tweets : HasId(tweets[k])
        /\ seenIds = IdsOf(tweets)
        /\ seenIds \subseteq Ids
        /\ Returned => \A k \in DOMAIN result.value : HasId(result.value[k]))
  /\ [][ParsedNothing =>
          /\ pc' = "parse"
          /\ seenIds' = seenIds
          /\ harvestOrder' = harvestOrder
          /\ completion' = completion
          /\ caughtError' = caughtError]_vars

\* In one round a parse returned null and a later article of that round was
\* pushed; the call returned that record.
C28_Witness ==
  /\ ReturnedTweets
  /\ skipped = "skippedThenPushed"
  /\ Len(result.value) >= 1

\* C30 as claimed: the cookie file at persistCookiesPath never makes
\* scrapeList fail (whatever it holds, the context is created and the page
\* navigated), and when the save of the cookies fails after the loop the
\* harvested tweets are still returned.
C30_CookieFailuresNotFatal ==
  /\ cookieLoad # "rejected"
  /\ (pc = "done" /\ cookieSave = "failed") =>
       /\ ReturnedTweets
       /\ IdsOf(result.value) = IdsOf(harvestOrder)

\* The calls of scrapeList that are saving cookies to PERSIST_COOKIES_PATH.
Writing == { c \in Running : cookieWrite[c[1]][c[2]] = "writing" }

\* C24 as claimed: with CONCURRENCY 1 and one PERSIST_COOKIES_PATH for the
\* process, never two calls of scrapeList are writing the cookie file at the
\* same time.
C24_OneCookieWriter == CONCURRENCY = 1 => Cardinality(Writing) <= 1

\* Every call of scrapeList of the run threw.
AllFailed(outcomes) == \A k \in DOMAIN outcomes : outcomes[k].type = "throw"

\* The run ended as a failure: an HTTP error status, a non-zero exit code.
HardFailure(end) ==
  IF end.entry = "http" THEN end.code >= 400 ELSE end.code # 0

\* C23 as claimed: a run ends as a failure (HTTP error status, non-zero exit
\* code of the CLI or of the actor) exactly when every scrapeList of the run
\* failed.
C23_FailsIffAllFailed ==
  ended # Null => (HardFailure(ended) <=> AllFailed(ended.outcomes))

\* C21 as claimed: opts.timeoutMs is a deadline for the whole session: a
\* session is never past timeoutMs milliseconds, and one that would be ends
\* with a timeout error.
C21_SessionDeadline ==
  /\ elapsed <= timeoutMs
  /\ (timedPc = "done" /\ elapsed > timeoutMs) => ending = "timeout"

\* C31: the checks after the for loop run in the order cap, end of feed,
\* stall. A round that filled the cap leaves the loop as CapReached and
\* isEndOfFeed is not called (so it cannot throw); a round that isEndOfFeed
\* ends leaves the stall counter as it was; the loop is left as Stalled only
\* by a round without new tweets that brought the counter to
\* maxConsecutiveScrolls; and the scroll follows only a round that none of the
\* three checks ended.
C31_ChecksInOrder ==
  /\ [][pc = "roundEnd" =>
          /\ Len(tweets) >= maxTweets =>
               /\ pc' = "save"
               /\ doneReason' = "CapReached"
               /\ consecutiveNoNewTweets' = consecutiveNoNewTweets
          /\ doneReason' = "EndOfFeed" =>
               /\ pc' = "save"
               /\ Len(tweets) < maxTweets
               /\ consecutiveNoNewTweets' = consecutiveNoNewTweets
          /\ doneReason' = "Stalled" =>
               /\ pc' = "save"
               /\ Len(tweets) < maxTweets
               /\ newTweetsFound = 0
               /\ consecutiveNoNewTweets' = maxConsecutiveScrolls
          /\ pc' = "scroll" =>
               /\ doneReason' = "none"
               /\ Len(tweets) < maxTweets
               /\ consecutiveNoNewTweets' =
                    NextStallCount(consecutiveNoNewTweets, newTweetsFound)
               /\ consecutiveNoNewTweets' < maxConsecutiveScrolls]_vars
  /\ [][pc' = "scroll" => pc \in {"roundEnd", "scroll"}]_vars

\* Two rounds without a new tweet, the second with the end-of-feed marker on
\* the page: the loop was left as EndOfFeed with the stall counter still 1.
C31_Witness ==
  /\ ReturnedTweets
  /\ doneReason = "EndOfFeed"
  /\ newTweetsFound = 0
  /\ zeroRounds = 2
  /\ consecutiveNoNewTweets = 1

\* scrapeList is in, or past, its while loop.
Harvesting == pc \in {"loop", "parse", "roundEnd", "scroll", "save"}

\* C32: the while loop is entered only after a waitForTweets returned true,
\* and nothing is harvested before; when the first wait returns false there is
\* one scrollToLoadMore and then one second wait, neither repeated; when the
\* second returns false too, "No tweets found" is thrown with nothing
\* harvested, and the call ends as the catch clause decides for that error.
C32_ContentWaitProtocol ==
  /\ [](/\ Harvesting => loaded
        /\ ~loaded => (tweets = << >> /\ seenIds = {} /\ harvestOrder = << >>)
        /\ pc \in {"scroll0", "wait2"} => (~loaded /\ extractionStarted)
        /\ caughtError = "NO_TWEETS" => (~loaded /\ doneReason = "none")
        /\ (pc = "done" /\ caughtError = "NO_TWEETS") =>
             IF partialOk THEN Returned /\ result.value = << >>
             ELSE Thrown /\ result.error = "NO_TWEETS")
  /\ [][/\ pc' = "wait1" => pc \in {"check", "wait1"}
        /\ pc' = "scroll0" => pc \in {"wait1", "scroll0"}
        /\ pc' = "wait2" => pc \in {"scroll0", "wait2"}
        /\ pc' \in {"goto", "check"} => pc \in {"newContext", "goto", "check"}
        /\ (pc = "wait1" /\ pc' = "scroll0") => ~loaded'
        /\ (pc = "wait2" /\ ~loaded') => caughtError' = "NO_TWEETS"
        /\ (pc' = "loop" /\ pc \notin {"loop", "scroll"}) =>
             (pc \in {"wait1", "wait2"} /\ loaded')]_vars

\* Both waits returned false, partialOk unset: "No tweets found" was thrown.
C32_Witness ==
  /\ pc = "done"
  /\ ~loaded
  /\ ~partialOk
  /\ Thrown
  /\ result.error = "NO_TWEETS"
  /\ ~sawDuplicate

\* The step of the for loop that parsed an article.
ParsedArticle == pc = "parse" /\ articlesLeft' = articlesLeft - 1

\* C33: once tweets.length has reached maxTweets no article is parsed and no
\* tweet is pushed, the round ends and no scroll follows; below the cap every
\* parsed article is either pushed at the end of tweets, its id new, or was
\* null or already seen; so the ids returned are those of the first maxTweets
\* distinct tweets in the order in which they were parsed.
C33_StopsAtCap ==
  /\ [](/\ pc = "scroll" => Len(tweets) < maxTweets
        /\ doneReason = "CapReached" => Len(harvestOrder) = maxTweets
        /\ NoDuplicateIds(harvestOrder)
        /\ Len(harvestOrder) <= maxTweets
        /\ ReturnedTweets =>
             /\ IdsOf(result.value) = IdsOf(harvestOrder)
             /\ Len(result.value) = Len(harvestOrder))
  /\ [][Len(tweets) >= maxTweets =>
          /\ harvestOrder' = harvestOrder
          /\ seenIds' = seenIds
          /\ articlesLeft' = articlesLeft
          /\ pc' # "scroll"
          /\ pc = "parse" => pc' \in {"parse", "roundEnd"}
          /\ pc = "roundEnd" => pc' \in {"roundEnd", "save"}]_vars
  /\ [][ParsedArticle =>
          /\ Len(tweets) < maxTweets
          /\ \/ /\ Len(harvestOrder') = Len(harvestOrder) + 1
                /\ SubSeq(harvestOrder', 1, Len(harvestOrder)) = harvestOrder
                /\ harvestOrder'[Len(harvestOrder')].id \notin seenIds
                /\ tweets' = Append(tweets, harvestOrder'[Len(harvestOrder')])
             \/ /\ harvestOrder' = harvestOrder
                /\ tweets' = tweets
                /\ skipped' # "no" \/ sawDuplicate']_vars

\* The second tweet filled the cap with an article of the round left
\* unparsed, after an already seen tweet had been parsed again; both tweets
\* were returned.
C33_Witness ==
  /\ ReturnedTweets
  /\ doneReason = "CapReached"
  /\ articlesLeft > 0
  /\ sawDuplicate
  /\ maxTweets = 2
  /\ Len(harvestOrder) = 2
  /\ IdsOf(result.value) = IdsOf(harvestOrder)

\* C34 as claimed: once scrapeList has settled, close() was called on the
\* page, on the context and on the browser, whichever of them was created,
\* also when an earlier close() failed.
C34_EveryResourceReleased ==
  pc = "done" => (page # "open" /\ context # "open" /\ browser # "open")

\* What the while loop can still do: the tweets missing to the cap, each worth
\* maxConsecutiveScrolls rounds, less the stalled rounds already counted.
Rank(len, stall) == (maxTweets - len) * maxConsecutiveScrolls - stall

\* The step that ends a round and goes on to scroll.
RoundContinues == pc = "roundEnd" /\ pc' = "scroll"

\* C35: every round that goes on to scroll either added a tweet (and reset
\* the stall counter) or added none and raised the counter, to 4 at most; each
\* lowers Rank, which stays positive, so there are fewer than
\* maxTweets * maxConsecutiveScrolls such rounds; and when every page
\* operation settles, scrapeList settles.
C35_LoopTerminates ==
  /\ [][RoundContinues =>
          /\ \/ /\ Len(tweets) > roundStartLen
                /\ consecutiveNoNewTweets' = 0
             \/ /\ Len(tweets) = roundStartLen
                /\ consecutiveNoNewTweets' = consecutiveNoNewTweets + 1
                /\ consecutiveNoNewTweets' < maxConsecutiveScrolls
          /\ Rank(Len(tweets'), consecutiveNoNewTweets')
               < Rank(roundStartLen, consecutiveNoNewTweets)
          /\ Rank(Len(tweets'), consecutiveNoNewTweets') >= 1]_vars
  /\ [](pc \in {"loop", "parse", "roundEnd", "scroll"} =>
          Rank(roundStartLen, consecutiveNoNewTweets) <=
            maxTweets * maxConsecutiveScrolls)
  /\ <>(pc = "done")

\* With maxTweets 2 the loop added one tweet, then stalled for five rounds and
\* the call returned.
C35_Witness ==
  /\ pc = "done"
  /\ maxTweets = 2
  /\ doneReason = "Stalled"
  /\ Len(harvestOrder) = 1
  /\ zeroRounds = maxConsecutiveScrolls
  /\ Returned

\* C36: in every state of scrapeList the ids of tweets are pairwise distinct
\* and are exactly seenIds, so tweets.length equals seenIds.size; and when the
\* loop is about to scroll, consecutiveNoNewTweets is between 0 and 4 and
\* tweets.length is below maxTweets.
C36_ListAndSetAgree ==
  /\ \A i \in DOMAIN tweets, j \in DOMAIN tweets :
       tweets[i].id = tweets[j].id => i = j
  /\ { tweets[k].id : k \in DOMAIN tweets } = seenIds
  /\ Len(tweets) = Cardinality(seenIds)
  /\ pc = "scroll" =>
       /\ consecutiveNoNewTweets \in 0..(maxConsecutiveScrolls - 1)
       /\ Len(tweets) < maxTweets

\* About to scroll after four rounds without a new tweet, one tweet
\* accumulated of the two wanted.
C36_Witness ==
  /\ pc = "scroll"
  /\ consecutiveNoNewTweets = maxConsecutiveScrolls - 1
  /\ maxTweets = 2
  /\ Len(tweets) = 1
  /\ Cardinality(seenIds) = 1
  /\ sawDuplicate

\* The URLs of an array.
UrlsIn(urls) == { urls[k] : k \in DOMAIN urls }

\* C37: the route calls scrapeList exactly for the URLs of the array the
\* refinements tested (`data.listURL || data.listUrl`), each of which
\* isValidListUrl accepted, also when the body holds both keys with different
\* arrays; for a body it answers 400 it calls scrapeList for none.
C37_ScrapedListIsValidatedList ==
  Posted =>
    /\ { call.url : call \in launched } \subseteq UrlsIn(ListUrlsOf(received.body))
    /\ \A call \in launched : isValidListUrl(call.url)
    /\ httpReply = Null =>
         /\ normalized.listURLs = ListUrlsOf(received.body)
         /\ { call.url : call \in launched } = UrlsIn(normalized.listURLs)
    /\ httpReply # Null => launched = {}

\* The body holds a valid list URL under listURL and another, invalid URL
\* under listUrl: only the first is scraped.
C37_Witness ==
  /\ Posted
  /\ httpReply = Null
  /\ received.body.listURL # {}
  /\ received.body.listUrl # {}
  /\ received.body.listUrl # received.body.listURL
  /\ launched # {}
  /\ \E k \in DOMAIN Value(received.body.listUrl) :
       /\ ~isValidListUrl(Value(received.body.listUrl)[k])
       /\ \A call \in launched : call.url # Value(received.body.listUrl)[k]

\* C38: checkForBlockers is called once, right after page.goto and before any
\* wait or harvest; LOGIN_REQUIRED and RATE_LIMIT are thrown only there, so
\* never once the loop has begun, whatever the page turns into; a call whose
\* page became a blocker page during the loop, no page operation throwing,
\* leaves the loop by cap, end of feed or stall and returns the tweets
\* accumulated.
C38_BlockersCheckedOnce ==
  /\ [](/\ caughtError \in {"LOGIN_REQUIRED", "RATE_LIMIT"} =>
             /\ ~extractionStarted
             /\ ~blockedLater
             /\ harvestOrder = << >>
             /\ Blocked
        /\ (blockerCheck # Null /\ ~Blocked) =>
             caughtError \notin {"LOGIN_REQUIRED", "RATE_LIMIT"}
        /\ (pc = "done" /\ blockedLater /\ caughtError = "none") =>
             /\ Returned
             /\ doneReason \in {"CapReached", "EndOfFeed", "Stalled"}
             /\ Len(result.value) = Len(harvestOrder)
             /\ IdsOf(result.value) = IdsOf(harvestOrder))
  /\ [][blockerCheck' # blockerCheck =>
          (pc = "check" /\ blockerCheck = Null /\ ~extractionStarted)]_vars

\* A blocker page appeared after one tweet had been harvested: the loop
\* stalled and the call returned that tweet.
C38_Witness ==
  /\ pc = "done"
  /\ blockedLater
  /\ ~Blocked
  /\ doneReason = "Stalled"
  /\ Returned
  /\ Len(result.value) = 1

\* C39: scrapeMultipleLists awaits one scrapeList at a time, for the URLs in
\* input order; it pushes one entry per URL, which is never changed
\* afterwards: the URL and, when scrapeList returned, its tweets and no error,
\* when it threw, no tweets and the error's message; and it returns those
\* entries, never throwing.
C39_OneEntryPerTarget ==
  /\ [](/\ Cardinality(multiActive) <= 1
        /\ \A i \in multiActive : i = Len(multiResults) + 1
        /\ Len(multiResults) = Len(multiOutcomes)
        /\ multiCall # Null => Len(multiResults) <= Len(multiCall.urls)
        /\ \A k \in DOMAIN multiResults :
             /\ multiResults[k].url = multiCall.urls[k]
             /\ IF multiOutcomes[k].type = "throw"
                  THEN /\ multiResults[k].tweets = << >>
                       /\ multiResults[k].error = { multiOutcomes[k].error }
                  ELSE /\ multiResults[k].tweets = multiOutcomes[k].value
                       /\ multiResults[k].error = {}
        /\ multiReturned # Null =>
             /\ multiReturned.type = "return"
             /\ multiReturned.value = multiResults
             /\ Len(multiReturned.value) = Len(multiCall.urls))
  /\ [][\A k \in DOMAIN multiResults :
          /\ k \in DOMAIN multiResults'
          /\ multiResults'[k] = multiResults[k]]_vars

\* Two URLs: scrapeList threw for the first and returned a tweet for the
\* second; both entries were returned, in that order.
C39_Witness ==
  /\ multiReturned # Null
  /\ Len(multiReturned.value) = 2
  /\ multiReturned.value[1].error = { "RATE_LIMIT" }
  /\ multiReturned.value[1].tweets = << >>
  /\ multiReturned.value[2].error = {}
  /\ Len(multiReturned.value[2].tweets) = 1

====
